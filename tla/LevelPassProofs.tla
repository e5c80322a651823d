--------------------------- MODULE LevelPassProofs ---------------------------
(***************************************************************************)
(* What holds of the level pass for any number of sweeps, admins, players, *)
(* orders and seasons.  First the types: the shapes of the rows and what   *)
(* every job holds at each of its points.  Then the books: every reward    *)
(* and every refund is booked once, the reports pay for what the ledger    *)
(* was charged with, what was granted stays granted, and nobody is         *)
(* credited in a season that is over as long as one sweep runs.  Then the  *)
(* sums: the counters are the sums of the transactions whatever the admins *)
(* do, points are too as long as admins do not work on one order at once,  *)
(* and the reports then add up.                                            *)
(***************************************************************************)
EXTENDS LevelPassProps, SumTheorems

\* What a sweep may hold at each of its points, and an admin.
SweepJobs ==
  {Idle}
    \cup [ pc : {"order"}, todo : SUBSET Paid ]
    \cup [ pc : {"state"}, todo : SUBSET Paid, order : Paid, season : Seasons ]
    \cup [ pc : {"apply"}, todo : SUBSET Paid, order : Paid, season : Seasons,
           profile : Profiles,
           decision : [ crossed : SUBSET Thresholds, vault : BOOLEAN ] ]
    \cup [ pc : {"place"}, todo : SUBSET Events, recipes : SUBSET Thresholds ]
    \cup [ pc : {"grant"}, todo : SUBSET Events ]
    \cup [ pc : {"close"}, season : Seasons, first : Profiles \cup {None},
           others : SUBSET Profiles ]

ReversalPlans == [ reverse : SUBSET Thresholds, closes : BOOLEAN ]
OverridePlans ==
  [ delta : Int, create : SUBSET Thresholds, restore : SUBSET Thresholds,
    reverse : SUBSET Thresholds, unlocks : BOOLEAN, closes : BOOLEAN ]

AdminJobs ==
  {Idle}
    \cup [ pc : {"reverse"}, order : Orders, tx : TxRow \cup {NoTx}, plan : ReversalPlans ]
    \cup [ pc : {"override"}, order : Orders, tx : TxRow, awarded : Nat,
           plan : OverridePlans ]

JobsOK ==
  /\ sweep \in [ Sweeps -> SweepJobs ]
  /\ admin \in [ Admins -> AdminJobs ]

\* A season is only due if there is a next one, and whoever is about to
\* close a season holds one that is due or was closed in the meantime.
ClosingOK ==
  /\ due => current \in Seasons \ {0} /\ current + 1 \in Seasons
  /\ \A k \in Sweeps : sweep[k].pc = "close" =>
       /\ sweep[k].season <= current
       /\ sweep[k].season = current => due

\* Whoever works on a transaction works on one that is still there.
HoldsOK ==
  \A a \in Admins :
    \/ admin[a].pc = "reverse" /\ admin[a].tx # NoTx
    \/ admin[a].pc = "override"
    => lpTx[admin[a].order] \in TxRow

TypeInv == TypeOK /\ JobsOK /\ ClosingOK /\ HoldsOK

------------------------------------------------------------------------------
(* Operators.                                                              *)

LEMMA ZeroTypes == ASSUME NEW n \in Int PROVE AtLeastZero(n) \in Nat
BY DEF AtLeastZero

\* One cell of a table changes.
LEMMA TableTypes ==
  ASSUME NEW Rows, NEW Columns, NEW Cells, NEW table \in [Rows -> [Columns -> Cells]],
         NEW r \in Rows, NEW c \in Columns, NEW cell \in Cells
  PROVE  [table EXCEPT ![r][c] = cell] \in [Rows -> [Columns -> Cells]]
OBVIOUS

LEMMA OldestTypes ==
  ASSUME NEW rows, NEW at, NEW batch \in Oldest(rows, at)
  PROVE  batch \subseteq rows
BY DEF Oldest, Batches

LEMMA BatchTypes ==
  ASSUME NEW rows, NEW batch \in Batches(rows)
  PROVE  batch \subseteq rows
BY DEF Batches

\* The worth of an order, whoever sold it.
LEMMA WorthTypes ==
  ASSUME NEW o \in Paid
  PROVE  Financials(o).lp \in Nat /\ Financials(o).diamonds \in Nat
<1>1. Profit[o] \in Int /\ Diamonds[o] \in Nat
  BY LevelPassAssumption
<1>2. RoundPesos(Profit[o]) \in Int
  BY <1>1, SMT DEF RoundPesos
<1>3. CalculatedLp(Profit[o]) \in Nat
  BY <1>2, ZeroTypes DEF CalculatedLp
<1> QED BY <1>1, <1>3 DEF Financials

\* A decision is about rungs.
LEMMA DecisionTypes ==
  ASSUME NEW lp, NEW rows, NEW new, NEW rungs \in SUBSET Thresholds
  PROVE  Decide(lp, rows, new, rungs)
           \in [ crossed : SUBSET Thresholds, vault : BOOLEAN ]
BY DEF Decide

LEMMA RevocableTypes ==
  ASSUME NEW s, NEW p, NEW lp
  PROVE  Revocable(EventsOf(s, p), lp) \subseteq Thresholds
BY DEF Revocable, Uncovered, EventsOf

LEMMA ReversalTypes ==
  ASSUME NEW s, NEW p, NEW new, NEW lp, NEW open \in BOOLEAN
  PROVE  PlanReversal(new, lp, EventsOf(s, p), open) \in ReversalPlans
BY RevocableTypes DEF PlanReversal, ReversalPlans

LEMMA OverrideTypes ==
  ASSUME NEW s, NEW p, NEW before \in Int, NEW after \in Int, NEW lp,
         NEW rungs \in SUBSET Thresholds, NEW open \in BOOLEAN
  PROVE  PlanOverride(before, after, lp, rungs, EventsOf(s, p), open) \in OverridePlans
BY RevocableTypes DEF PlanOverride, OverridePlans

------------------------------------------------------------------------------
(* Types.                                                                  *)

\* A sweep moved on holds what it was given, and nobody else moves.
LEMMA GoesTypes ==
  ASSUME JobsOK, NEW k \in Sweeps, NEW job \in SweepJobs, Goes(k, job), UNCHANGED admin
  PROVE  /\ JobsOK' /\ sweep'[k] = job
         /\ \A l \in Sweeps \ {k} : sweep'[l] = sweep[l]
BY DEF JobsOK, Goes

LEMMA ActsTypes ==
  ASSUME JobsOK, NEW a \in Admins, NEW job \in AdminJobs, Acts(a, job), UNCHANGED sweep
  PROVE  /\ JobsOK' /\ admin'[a] = job
         /\ \A b \in Admins \ {a} : admin'[b] = admin[b]
BY DEF JobsOK, Acts

\* Which points a sweep and an admin can be at follows from what they hold.
LEMMA PointsOfJobs ==
  ASSUME JobsOK
  PROVE  /\ \A k \in Sweeps : sweep[k].pc \in
              { "idle", "order", "state", "apply", "place", "grant", "close" }
         /\ \A a \in Admins : admin[a].pc \in { "idle", "reverse", "override" }
BY DEF JobsOK, SweepJobs, AdminJobs, Idle

\* What a job at a point is made of.
LEMMA SweepHolds ==
  ASSUME JobsOK, NEW k \in Sweeps
  PROVE  /\ sweep[k].pc = "order" => sweep[k].todo \subseteq Paid
         /\ sweep[k].pc = "state" => /\ sweep[k].todo \subseteq Paid
                                     /\ sweep[k].order \in Paid
                                     /\ sweep[k].season \in Seasons
         /\ sweep[k].pc = "apply" => /\ sweep[k].todo \subseteq Paid
                                     /\ sweep[k].order \in Paid
                                     /\ sweep[k].season \in Seasons
                                     /\ sweep[k].profile \in Profiles
                                     /\ sweep[k].decision.crossed \subseteq Thresholds
         /\ sweep[k].pc = "place" =>
              sweep[k] \in [ pc : {"place"}, todo : SUBSET Events, recipes : SUBSET Thresholds ]
         /\ sweep[k].pc = "grant" => sweep[k] \in [ pc : {"grant"}, todo : SUBSET Events ]
         /\ sweep[k].pc = "close" => /\ sweep[k].season \in Seasons
                                     /\ sweep[k].first \in Profiles \cup {None}
                                     /\ sweep[k].others \subseteq Profiles
<1>1. sweep[k] \in SweepJobs
  BY DEF JobsOK
<1> QED BY <1>1 DEF SweepJobs, Idle

LEMMA AdminHolds ==
  ASSUME JobsOK, NEW a \in Admins
  PROVE  /\ admin[a].pc = "reverse" => /\ admin[a].order \in Orders
                                       /\ admin[a].tx \in TxRow \cup {NoTx}
                                       /\ admin[a].plan \in ReversalPlans
         /\ admin[a].pc = "override" => /\ admin[a].order \in Orders
                                        /\ admin[a].tx \in TxRow
                                        /\ admin[a].awarded \in Nat
                                        /\ admin[a].plan \in OverridePlans
<1>1. admin[a] \in AdminJobs
  BY DEF JobsOK
<1> QED BY <1>1 DEF AdminJobs, Idle

LEMMA IdleIsAJob == Idle \in SweepJobs /\ Idle \in AdminJobs /\ Idle.pc = "idle"
BY DEF SweepJobs, AdminJobs, Idle

\* The rest of a batch is a batch, or nothing.
LEMMA OnToTypes ==
  ASSUME NEW todo \in SUBSET Paid, NEW o
  PROVE  OnTo(todo, o) \in SweepJobs /\ OnTo(todo, o).pc \in { "idle", "order" }
BY DEF OnTo, SweepJobs, Idle

LEMMA AfterEventTypes ==
  ASSUME NEW e, NEW j,
         \/ j \in [ pc : {"place"}, todo : SUBSET Events, recipes : SUBSET Thresholds ]
         \/ j \in [ pc : {"grant"}, todo : SUBSET Events ]
  PROVE  /\ AfterEvent(j, e) \in SweepJobs
         /\ AfterEvent(j, e).pc \in { "idle", j.pc }
         /\ AfterEvent(j, e).pc # "idle" => AfterEvent(j, e).todo \subseteq j.todo
<1>1. CASE j.todo = {e}
  BY <1>1, IdleIsAJob DEF AfterEvent
<1>2. CASE j.todo # {e}
  <2>1. AfterEvent(j, e) = [j EXCEPT !.todo = @ \ {e}]
    BY <1>2 DEF AfterEvent
  <2>2. CASE j \in [ pc : {"place"}, todo : SUBSET Events, recipes : SUBSET Thresholds ]
    <3>1. AfterEvent(j, e)
            \in [ pc : {"place"}, todo : SUBSET Events, recipes : SUBSET Thresholds ]
      BY <2>1, <2>2
    <3> QED BY <2>1, <2>2, <3>1 DEF SweepJobs
  <2>3. CASE j \in [ pc : {"grant"}, todo : SUBSET Events ]
    <3>1. AfterEvent(j, e) \in [ pc : {"grant"}, todo : SUBSET Events ]
      BY <2>1, <2>3
    <3> QED BY <2>1, <2>3, <3>1 DEF SweepJobs
  <2> QED BY <2>2, <2>3
<1> QED BY <1>1, <1>2

\* The shapes of the rows: TypeOK but for the points, which jobs have anyway.
RowsOK ==
  /\ status \in [Orders -> StatusesOfOrders]
  /\ skipped \in [Orders -> BOOLEAN]
  /\ lpTx \in [Orders -> TxRow \cup {NoTx}]
  /\ stats \in [Seasons -> [Profiles -> StatsRow]]
  /\ lifetime \in [Profiles -> LifetimeRow]
  /\ event \in [Events -> EventRow]
  /\ placed \in [Events -> Nat]
  /\ ledger \in [ expenses : [Events -> Nat], refunds : [Orders -> Nat] ]
  /\ vault \in [Seasons -> [Profiles -> VaultStatuses]]
  /\ current \in Seasons \cup {0} /\ due \in BOOLEAN
  /\ ladder \in Ladders /\ linked \in [Profiles -> Ids]

LEMMA RowsAndJobs == RowsOK /\ JobsOK => TypeOK
BY PointsOfJobs DEF TypeOK, RowsOK

LEMMA RowsAndJobsNext == (RowsOK /\ JobsOK => TypeOK)'
BY RowsAndJobs, PTL

LEMMA RowsOfTypes == TypeOK => RowsOK
BY DEF TypeOK, RowsOK

\* Steps that only move a sweep along.
OnlySweeps == UNCHANGED <<status, skipped, completed, progress, rewards, perks, calendar, setup,
                          admin>>

LEMMA OnlySweepsRows == RowsOK /\ OnlySweeps => RowsOK'
BY DEF RowsOK, OnlySweeps, progress, rewards, perks, calendar, setup

LEMMA OnlySweepsTypes ==
  ASSUME RowsOK, JobsOK, ClosingOK, OnlySweeps,
         NEW k \in Sweeps, NEW job \in SweepJobs, Goes(k, job), job.pc # "close"
  PROVE  RowsOK' /\ JobsOK' /\ ClosingOK'
<1>1. RowsOK'
  BY OnlySweepsRows
<1>2. /\ JobsOK' /\ sweep'[k] = job
      /\ \A l \in Sweeps \ {k} : sweep'[l] = sweep[l]
  BY GoesTypes DEF OnlySweeps
<1>3. ClosingOK'
  BY <1>2 DEF ClosingOK, OnlySweeps, calendar
<1> QED BY <1>1, <1>2, <1>3

LEMMA FindUnprocessedTypes ==
  ASSUME RowsOK, JobsOK, ClosingOK, NEW k \in Sweeps, FindUnprocessed(k)
  PROVE  RowsOK' /\ JobsOK' /\ ClosingOK'
<1>1. PICK batch \in SUBSET Paid : Goes(k, [ pc |-> "order", todo |-> batch ])
  BY OldestTypes DEF FindUnprocessed
<1> DEFINE job == [ pc |-> "order", todo |-> batch ]
<1>2. job \in SweepJobs /\ job.pc # "close"
  BY DEF SweepJobs
<1>3. OnlySweeps
  BY DEF FindUnprocessed, OnlySweeps
<1> QED BY <1>1, <1>2, <1>3, OnlySweepsTypes

LEMMA FindSeasonTypes ==
  ASSUME RowsOK, JobsOK, ClosingOK, NEW k \in Sweeps, FindSeason(k)
  PROVE  RowsOK' /\ JobsOK' /\ ClosingOK'
<1>1. sweep[k].todo \subseteq Paid
  BY SweepHolds DEF FindSeason
<1>2. PICK o \in sweep[k].todo :
         IF lpTx[o] # NoTx \/ current = 0
         THEN Goes(k, OnTo(sweep[k].todo, o))
         ELSE Goes(k, [ pc |-> "state", todo |-> sweep[k].todo, order |-> o,
                        season |-> current ])
  BY DEF FindSeason
<1>3. OnlySweeps
  BY DEF FindSeason, OnlySweeps
<1>4. CASE lpTx[o] # NoTx \/ current = 0
  <2>1. OnTo(sweep[k].todo, o) \in SweepJobs /\ OnTo(sweep[k].todo, o).pc # "close"
    BY <1>1, OnToTypes
  <2> QED BY <1>2, <1>3, <1>4, <2>1, OnlySweepsTypes
<1>5. CASE ~(lpTx[o] # NoTx \/ current = 0)
  <2> DEFINE job == [ pc |-> "state", todo |-> sweep[k].todo, order |-> o, season |-> current ]
  <2>1. job \in SweepJobs /\ job.pc # "close"
    BY <1>1, <1>2, <1>5 DEF SweepJobs, RowsOK
  <2> QED BY <1>2, <1>3, <1>5, <2>1, OnlySweepsTypes
<1> QED BY <1>4, <1>5

LEMMA FindGrantableTypes ==
  ASSUME RowsOK, JobsOK, ClosingOK, NEW k \in Sweeps, FindGrantable(k)
  PROVE  RowsOK' /\ JobsOK' /\ ClosingOK'
<1>1. PICK batch \in SUBSET Events :
         Goes(k, [ pc |-> "place", todo |-> batch, recipes |-> Recipes ])
  BY OldestTypes DEF FindGrantable
<1> DEFINE job == [ pc |-> "place", todo |-> batch, recipes |-> Recipes ]
<1>2. Recipes \subseteq Thresholds
  BY LevelPassAssumption DEF Recipes, RowsOK
<1>3. job \in SweepJobs /\ job.pc # "close"
  BY <1>2 DEF SweepJobs
<1>4. OnlySweeps
  BY DEF FindGrantable, OnlySweeps
<1> QED BY <1>1, <1>3, <1>4, OnlySweepsTypes

LEMMA FindDeliveredTypes ==
  ASSUME RowsOK, JobsOK, ClosingOK, NEW k \in Sweeps, FindDelivered(k)
  PROVE  RowsOK' /\ JobsOK' /\ ClosingOK'
<1>1. PICK batch \in SUBSET Events : Goes(k, [ pc |-> "grant", todo |-> batch ])
  BY BatchTypes DEF FindDelivered
<1> DEFINE job == [ pc |-> "grant", todo |-> batch ]
<1>2. job \in SweepJobs /\ job.pc # "close"
  BY DEF SweepJobs
<1>3. OnlySweeps
  BY DEF FindDelivered, OnlySweeps
<1> QED BY <1>1, <1>2, <1>3, OnlySweepsTypes

LEMMA SweepFailsTypes ==
  ASSUME RowsOK, JobsOK, ClosingOK, NEW k \in Sweeps, SweepFails(k)
  PROVE  RowsOK' /\ JobsOK' /\ ClosingOK'
<1>1. Goes(k, Idle) /\ OnlySweeps
  BY DEF SweepFails, OnlySweeps
<1> QED BY <1>1, IdleIsAJob, OnlySweepsTypes

LEMMA FindDueTypes ==
  ASSUME RowsOK, JobsOK, ClosingOK, NEW k \in Sweeps, FindDue(k)
  PROVE  RowsOK' /\ JobsOK' /\ ClosingOK'
<1>1. PICK first \in Profiles \cup {None} :
         Goes(k, [ pc |-> "close", season |-> current, first |-> first,
                   others |-> Ranked(current) \ {first} ])
  BY DEF FindDue, Ranked
<1> DEFINE job == [ pc |-> "close", season |-> current, first |-> first,
                    others |-> Ranked(current) \ {first} ]
<1>2. due /\ current \in Seasons
  BY DEF FindDue, ClosingOK
<1>3. job \in SweepJobs
  BY <1>2 DEF SweepJobs, Ranked
<1>4. OnlySweeps
  BY DEF FindDue, OnlySweeps
<1>5. RowsOK'
  BY <1>4, OnlySweepsRows
<1>6. /\ JobsOK' /\ sweep'[k] = job
      /\ \A l \in Sweeps \ {k} : sweep'[l] = sweep[l]
  BY <1>1, <1>3, <1>4, GoesTypes DEF OnlySweeps
<1>7. current \in Nat
  BY <1>2, LevelPassAssumption
<1>8. ClosingOK'
  BY <1>2, <1>4, <1>6, <1>7 DEF ClosingOK, OnlySweeps, calendar
<1> QED BY <1>5, <1>6, <1>8

LEMMA ReadPlayerTypes ==
  ASSUME RowsOK, JobsOK, ClosingOK, NEW k \in Sweeps, ReadPlayer(k)
  PROVE  RowsOK' /\ JobsOK' /\ ClosingOK'
<1> DEFINE j == sweep[k]
<1>1. /\ j.todo \subseteq Paid /\ j.order \in Paid /\ j.season \in Seasons
  BY SweepHolds DEF ReadPlayer
<1>2. skipped' = [skipped EXCEPT ![j.order] = TRUE] \/ UNCHANGED skipped
  BY DEF ReadPlayer
<1>3. RowsOK'
  BY <1>1, <1>2 DEF ReadPlayer, RowsOK, progress, rewards, perks, calendar, setup
<1>4. PICK job : Goes(k, job) /\ job \in SweepJobs /\ job.pc # "close"
  <2>1. CASE Goes(k, OnTo(j.todo, j.order))
    BY <1>1, <2>1, OnToTypes
  <2>2. ASSUME NEW p \in Credited(j.order), NEW rows,
               Goes(k, [ pc |-> "apply", todo |-> j.todo, order |-> j.order,
                         season |-> j.season, profile |-> p,
                         decision |-> Decide(stats[j.season][p].lp, rows,
                                             Financials(j.order).lp, ladder) ])
        PROVE  \E job : Goes(k, job) /\ job \in SweepJobs /\ job.pc # "close"
    <3>1. p \in Profiles
      BY <1>1, LevelPassAssumption DEF Credited, Financials
    <3>2. ladder \in SUBSET Thresholds
      BY LevelPassAssumption DEF RowsOK
    <3> DEFINE decision == Decide(stats[j.season][p].lp, rows, Financials(j.order).lp, ladder)
               job == [ pc |-> "apply", todo |-> j.todo, order |-> j.order,
                        season |-> j.season, profile |-> p, decision |-> decision ]
    <3>3. decision \in [ crossed : SUBSET Thresholds, vault : BOOLEAN ]
      BY <3>2, DecisionTypes
    <3>4. Goes(k, job)
      BY <2>2
    <3> HIDE DEF decision
    <3>5. job \in SweepJobs
      BY <1>1, <3>1, <3>3 DEF SweepJobs
    <3> QED BY <3>4, <3>5
  <2>3. \/ Goes(k, OnTo(j.todo, j.order))
        \/ \E p \in Credited(j.order) : \E rows :
             Goes(k, [ pc |-> "apply", todo |-> j.todo, order |-> j.order,
                       season |-> j.season, profile |-> p,
                       decision |-> Decide(stats[j.season][p].lp, rows,
                                           Financials(j.order).lp, ladder) ])
    BY Zenon DEF ReadPlayer
  <2> QED BY <2>1, <2>2, <2>3
<1>5. /\ JobsOK' /\ sweep'[k] = job
      /\ \A l \in Sweeps \ {k} : sweep'[l] = sweep[l]
  BY <1>4, GoesTypes DEF ReadPlayer
<1>6. ClosingOK'
  BY <1>4, <1>5 DEF ClosingOK, ReadPlayer, calendar
<1> QED BY <1>3, <1>5, <1>6

\* A sweep that moves on without the calendar moving leaves ClosingOK alone.
LEMMA MovesOn ==
  ASSUME JobsOK, ClosingOK, NEW k \in Sweeps, NEW job \in SweepJobs, Goes(k, job),
         job.pc # "close", UNCHANGED admin, UNCHANGED calendar
  PROVE  JobsOK' /\ ClosingOK'
<1>1. /\ JobsOK' /\ sweep'[k] = job
      /\ \A l \in Sweeps \ {k} : sweep'[l] = sweep[l]
  BY GoesTypes
<1> QED BY <1>1 DEF ClosingOK, calendar

LEMMA ApplyDecisionTypes ==
  ASSUME RowsOK, JobsOK, ClosingOK, NEW k \in Sweeps, ApplyDecision(k)
  PROVE  RowsOK' /\ JobsOK' /\ ClosingOK'
<1> DEFINE j == sweep[k]
           o == j.order
           p == j.profile
           s == j.season
           f == Financials(o)
           ranking == IF linked[p] = f.target THEN f.diamonds ELSE 0
           new == { c \in j.decision.crossed : event[<<s, p, c>>].status = "none" }
<1>1. /\ j.todo \subseteq Paid /\ o \in Paid /\ s \in Seasons /\ p \in Profiles
  BY SweepHolds DEF ApplyDecision
<1>2. f.lp \in Nat /\ f.diamonds \in Nat /\ ranking \in Nat
  BY <1>1, WorthTypes
<1>3. JobsOK' /\ ClosingOK'
  <2>1. OnTo(j.todo, o) \in SweepJobs /\ OnTo(j.todo, o).pc # "close"
    BY <1>1, OnToTypes
  <2> QED BY <2>1, MovesOn DEF ApplyDecision
<1>4. UNCHANGED <<status, skipped, placed, ledger, calendar, setup>>
  BY DEF ApplyDecision
<1>5. CASE lpTx[o] # NoTx
  <2>1. UNCHANGED <<progress, event, vault>>
    BY <1>5 DEF ApplyDecision
  <2> QED BY <1>3, <1>4, <2>1 DEF RowsOK, progress, calendar, setup
<1>6. CASE lpTx[o] = NoTx
  <2> DEFINE row == [ season |-> s, profile |-> p, calculated |-> f.lp, awarded |-> f.lp,
                      diamonds |-> f.diamonds, ranking |-> ranking, reversed |-> FALSE ]
  <2>1. /\ lpTx' = [lpTx EXCEPT ![o] = row]
        /\ stats' = [stats EXCEPT ![s][p] =
               [ lp |-> @.lp + f.lp, diamonds |-> @.diamonds + ranking ]]
        /\ lifetime' = [lifetime EXCEPT ![p] =
               [ diamonds |-> @.diamonds + f.diamonds, recharges |-> @.recharges + 1 ]]
        /\ event' = [e \in Events |->
               IF e[1] = s /\ e[2] = p /\ e[3] \in new
               THEN [ status |-> "pending", linked |-> FALSE ] ELSE event[e]]
        /\ \/ vault' = [vault EXCEPT ![s][p] = IF @ = "none" THEN "active" ELSE @]
           \/ vault' = vault
    BY <1>6 DEF ApplyDecision
  <2> HIDE DEF f, ranking, new
  <2>2. row \in TxRow
    BY <1>1, <1>2 DEF TxRow
  <2> HIDE DEF row
  <2>3. lpTx' \in [Orders -> TxRow \cup {NoTx}]
    BY <2>1, <2>2 DEF RowsOK
  <2>4. stats' \in [Seasons -> [Profiles -> StatsRow]]
    BY <1>1, <1>2, <2>1, SMTT(30) DEF RowsOK, StatsRow
  <2>5. lifetime' \in [Profiles -> LifetimeRow]
    BY <1>1, <1>2, <2>1 DEF RowsOK, LifetimeRow
  <2>6. event' \in [Events -> EventRow]
    <3> HIDE DEF s, p
    <3> QED BY <2>1 DEF RowsOK, EventRow, EventStatuses
  <2>7. vault' \in [Seasons -> [Profiles -> VaultStatuses]]
    <3> HIDE DEF s, p
    <3>1. s \in Seasons /\ p \in Profiles
      BY <1>1
    <3>2. vault[s][p] \in VaultStatuses
      BY <3>1 DEF RowsOK
    <3> DEFINE entry == IF vault[s][p] = "none" THEN "active" ELSE vault[s][p]
    <3>3. entry \in VaultStatuses
      BY <3>2 DEF VaultStatuses
    <3>4. vault' = [vault EXCEPT ![s][p] = entry] \/ vault' = vault
      BY <2>1
    <3> HIDE DEF entry
    <3>5. vault \in [Seasons -> [Profiles -> VaultStatuses]]
      BY DEF RowsOK
    <3>6. [vault EXCEPT ![s][p] = entry] \in [Seasons -> [Profiles -> VaultStatuses]]
      BY <3>1, <3>3, <3>5, TableTypes
    <3> QED BY <3>4, <3>5, <3>6
  <2> QED BY <1>3, <1>4, <2>3, <2>4, <2>5, <2>6, <2>7 DEF RowsOK, calendar, setup
<1> QED BY <1>3, <1>5, <1>6

LEMMA PlaceRewardTypes ==
  ASSUME RowsOK, JobsOK, ClosingOK, NEW k \in Sweeps, PlaceReward(k)
  PROVE  RowsOK' /\ JobsOK' /\ ClosingOK'
<1>1. sweep[k] \in [ pc : {"place"}, todo : SUBSET Events, recipes : SUBSET Thresholds ]
  BY SweepHolds DEF PlaceReward
<1>2. PICK e \in sweep[k].todo :
         /\ CreateRewardOrder(e) \/ UNCHANGED <<event, placed, status>>
         /\ Goes(k, AfterEvent(sweep[k], e))
  BY DEF PlaceReward
<1>3. e \in Events
  BY <1>1, <1>2
<1>4. JobsOK' /\ ClosingOK'
  <2>1. AfterEvent(sweep[k], e) \in SweepJobs /\ AfterEvent(sweep[k], e).pc # "close"
    BY <1>1, AfterEventTypes
  <2> QED BY <1>2, <2>1, MovesOn DEF PlaceReward
<1>5. RowsOK'
  <2>1. UNCHANGED <<skipped, progress, ledger, perks, calendar, setup>>
    BY DEF PlaceReward
  <2>2. /\ event' \in [Events -> EventRow]
        /\ placed' \in [Events -> Nat]
        /\ status' \in [Orders -> StatusesOfOrders]
    <3>1. CASE UNCHANGED <<event, placed, status>>
      BY <3>1 DEF RowsOK
    <3>2. CASE /\ event' = [event EXCEPT ![e].linked = TRUE]
               /\ placed' = [placed EXCEPT ![e] = @ + 1]
               /\ status' = [status EXCEPT ![e] = "processing"]
      <4>1. event[e] \in EventRow /\ placed[e] + 1 \in Nat
        BY <1>3 DEF RowsOK
      <4>2. [event[e] EXCEPT !.linked = TRUE] \in EventRow
        BY <4>1 DEF EventRow
      <4>3. event' \in [Events -> EventRow]
        BY <3>2, <4>2, <1>3 DEF RowsOK
      <4>4. placed' \in [Events -> Nat]
        BY <3>2, <4>1, <1>3 DEF RowsOK
      <4>5. status' \in [Orders -> StatusesOfOrders]
        BY <3>2 DEF RowsOK, StatusesOfOrders
      <4> QED BY <4>3, <4>4, <4>5
    <3> QED BY <1>2, <3>1, <3>2 DEF CreateRewardOrder
  <2> QED BY <2>1, <2>2 DEF RowsOK, progress, perks, calendar, setup
<1> QED BY <1>4, <1>5

LEMMA GrantRewardTypes ==
  ASSUME RowsOK, JobsOK, ClosingOK, NEW k \in Sweeps, GrantReward(k)
  PROVE  RowsOK' /\ JobsOK' /\ ClosingOK'
<1>1. sweep[k] \in [ pc : {"grant"}, todo : SUBSET Events ]
  BY SweepHolds DEF GrantReward
<1>2. PICK e \in sweep[k].todo : Grant(e) /\ Goes(k, AfterEvent(sweep[k], e))
  BY DEF GrantReward
<1>3. e \in Events
  BY <1>1, <1>2
<1>4. JobsOK' /\ ClosingOK'
  <2>1. AfterEvent(sweep[k], e) \in SweepJobs /\ AfterEvent(sweep[k], e).pc # "close"
    BY <1>1, AfterEventTypes
  <2> QED BY <1>2, <2>1, MovesOn DEF GrantReward
<1>5. RowsOK'
  <2>1. UNCHANGED <<status, skipped, progress, placed, perks, calendar, setup>>
    BY DEF GrantReward
  <2>2. /\ event' \in [Events -> EventRow]
        /\ ledger' \in [ expenses : [Events -> Nat], refunds : [Orders -> Nat] ]
    <3>1. CASE UNCHANGED <<event, ledger>>
      BY <3>1 DEF RowsOK
    <3>2. CASE /\ event' = [event EXCEPT ![e].status = "granted"]
               /\ ledger' = [ledger EXCEPT !.expenses[e] = @ + 1]
      <4>1. event[e] \in EventRow /\ ledger.expenses[e] + 1 \in Nat
        BY <1>3 DEF RowsOK
      <4>2. [event[e] EXCEPT !.status = "granted"] \in EventRow
        BY <4>1 DEF EventRow, EventStatuses
      <4>3. event' \in [Events -> EventRow]
        BY <3>2, <4>2, <1>3 DEF RowsOK
      <4>4. ledger' \in [ expenses : [Events -> Nat], refunds : [Orders -> Nat] ]
        BY <3>2, <4>1, <1>3 DEF RowsOK
      <4> QED BY <4>3, <4>4
    <3> QED BY <1>2, <3>1, <3>2 DEF Grant
  <2> QED BY <2>1, <2>2 DEF RowsOK, progress, perks, calendar, setup
<1> QED BY <1>4, <1>5

\* An admin who moves on while the sweeps and the calendar stand.
LEMMA AdminMovesOn ==
  ASSUME JobsOK, ClosingOK, NEW a \in Admins, NEW job \in AdminJobs, Acts(a, job),
         UNCHANGED sweep, UNCHANGED calendar
  PROVE  JobsOK' /\ ClosingOK'
<1>1. JobsOK'
  BY ActsTypes
<1> QED BY <1>1 DEF ClosingOK, calendar

LEMMA ReverseReadsTypes ==
  ASSUME RowsOK, JobsOK, ClosingOK, NEW a \in Admins, NEW o \in Orders, ReverseReads(a, o)
  PROVE  RowsOK' /\ JobsOK' /\ ClosingOK'
<1> DEFINE tx == lpTx[o]
           held == IF tx.reversed THEN NoTx ELSE tx
           calculated == PlanReversal(tx.awarded, stats[tx.season][tx.profile].lp,
                                      EventsOf(tx.season, tx.profile),
                                      vault[tx.season][tx.profile] = "active")
           plan == IF tx = NoTx \/ tx.reversed THEN [ reverse |-> {}, closes |-> FALSE ]
                   ELSE calculated
           job == [ pc |-> "reverse", order |-> o, tx |-> held, plan |-> plan ]
<1>1. held \in TxRow \cup {NoTx}
  BY DEF RowsOK
<1>2. calculated \in ReversalPlans
  BY ReversalTypes
<1>3. plan \in ReversalPlans
  <2>1. [ reverse |-> {}, closes |-> FALSE ] \in ReversalPlans
    BY DEF ReversalPlans
  <2> QED BY <1>2, <2>1
<1>4. Acts(a, job)
  BY DEF ReverseReads
<1>5. job \in AdminJobs
  <2> HIDE DEF held, plan
  <2> QED BY <1>1, <1>3 DEF AdminJobs
<1>6. RowsOK'
  BY DEF ReverseReads, RowsOK, progress, rewards, perks, calendar, setup
<1>7. JobsOK' /\ ClosingOK'
  <2> HIDE DEF job
  <2> QED BY <1>4, <1>5, AdminMovesOn DEF ReverseReads
<1> QED BY <1>6, <1>7

LEMMA ReverseWritesTypes ==
  ASSUME RowsOK, JobsOK, ClosingOK, HoldsOK, NEW a \in Admins, ReverseWrites(a)
  PROVE  RowsOK' /\ JobsOK' /\ ClosingOK'
<1> DEFINE j == admin[a]
           s == j.tx.season
           p == j.tx.profile
<1>1. j.order \in Orders /\ j.tx \in TxRow \cup {NoTx}
  BY AdminHolds DEF ReverseWrites
<1>2. JobsOK' /\ ClosingOK'
  BY IdleIsAJob, AdminMovesOn DEF ReverseWrites
<1>3. UNCHANGED <<skipped, placed, calendar, setup>>
  BY DEF ReverseWrites
<1>4. status' \in [Orders -> StatusesOfOrders]
  <2>1. status' = [status EXCEPT ![j.order] = "refunded"]
    BY DEF ReverseWrites
  <2> QED BY <2>1 DEF RowsOK, StatusesOfOrders
<1>5. ledger' \in [ expenses : [Events -> Nat], refunds : [Orders -> Nat] ]
  <2>1. ledger' = [ledger EXCEPT !.refunds[j.order] = @ + 1]
    BY DEF ReverseWrites
  <2> QED BY <1>1, <2>1, SMTT(30) DEF RowsOK
<1>6. CASE j.tx = NoTx
  <2>1. UNCHANGED <<progress, event, vault>>
    BY <1>6 DEF ReverseWrites
  <2> QED BY <1>2, <1>3, <1>4, <1>5, <2>1 DEF RowsOK, progress, calendar, setup
<1>7. CASE j.tx # NoTx
  <2>1. s \in Seasons /\ p \in Profiles /\ j.tx.awarded \in Nat /\ j.tx.ranking \in Nat
        /\ j.tx.diamonds \in Nat
    BY <1>1, <1>7 DEF TxRow
  <2>2. /\ lpTx' = [lpTx EXCEPT ![j.order].reversed = TRUE]
        /\ Unwind(j.tx)
        /\ event' = Revoke(s, p, j.plan.reverse)
        /\ vault' = [vault EXCEPT ![s][p] = "expired"] \/ vault' = vault
    BY <1>7 DEF ReverseWrites
  <2>3. lpTx' \in [Orders -> TxRow \cup {NoTx}]
    <3>1. lpTx[j.order] \in TxRow
      BY <1>7 DEF HoldsOK, ReverseWrites
    <3>2. [lpTx[j.order] EXCEPT !.reversed = TRUE] \in TxRow
      BY <3>1 DEF TxRow
    <3> QED BY <2>2, <3>2 DEF RowsOK
  <2>4. stats' \in [Seasons -> [Profiles -> StatsRow]]
    <3> DEFINE row == [ lp |-> AtLeastZero(stats[s][p].lp - j.tx.awarded),
                        diamonds |-> AtLeastZero(stats[s][p].diamonds - j.tx.ranking) ]
    <3>1. stats[s][p] \in StatsRow
      BY <2>1 DEF RowsOK
    <3>2. row \in StatsRow
      BY <2>1, <3>1, ZeroTypes DEF StatsRow
    <3>3. stats' = [stats EXCEPT ![s][p] = row]
      BY <2>2 DEF Unwind
    <3> HIDE DEF row
    <3>4. stats \in [Seasons -> [Profiles -> StatsRow]]
      BY DEF RowsOK
    <3>5. [stats EXCEPT ![s][p] = row] \in [Seasons -> [Profiles -> StatsRow]]
      BY <2>1, <3>2, <3>4, TableTypes
    <3> QED BY <3>3, <3>5
  <2>5. lifetime' \in [Profiles -> LifetimeRow]
    <3> DEFINE row == [ diamonds |-> AtLeastZero(lifetime[p].diamonds - j.tx.diamonds),
                        recharges |-> AtLeastZero(lifetime[p].recharges - 1) ]
    <3>1. lifetime[p].diamonds \in Nat /\ lifetime[p].recharges \in Nat
      BY <2>1 DEF RowsOK, LifetimeRow
    <3>2. row \in LifetimeRow
      BY <2>1, <3>1, ZeroTypes DEF LifetimeRow
    <3>3. lifetime' = [lifetime EXCEPT ![p] = row]
      BY <2>2 DEF Unwind
    <3> HIDE DEF row
    <3> QED BY <3>2, <3>3 DEF RowsOK
  <2>6. event' \in [Events -> EventRow]
    <3>1. \A e \in Events : [event[e] EXCEPT !.status = "reversed"] \in EventRow
      BY DEF RowsOK, EventRow, EventStatuses
    <3>2. \A e \in Events : event[e] \in EventRow
      BY DEF RowsOK
    <3> HIDE DEF s, p
    <3> QED BY <2>2, <3>1, <3>2 DEF Revoke
  <2>7. vault' \in [Seasons -> [Profiles -> VaultStatuses]]
    <3>1. vault \in [Seasons -> [Profiles -> VaultStatuses]] /\ "expired" \in VaultStatuses
      BY DEF RowsOK, VaultStatuses
    <3>2. [vault EXCEPT ![s][p] = "expired"] \in [Seasons -> [Profiles -> VaultStatuses]]
      BY <2>1, <3>1, TableTypes
    <3> QED BY <2>2, <3>1, <3>2
  <2> QED BY <1>2, <1>3, <1>4, <1>5, <2>3, <2>4, <2>5, <2>6, <2>7
          DEF RowsOK, calendar, setup
<1> QED BY <1>6, <1>7

LEMMA OverrideReadsTypes ==
  ASSUME RowsOK, JobsOK, ClosingOK, NEW a \in Admins, NEW o \in Orders,
         NEW lp \in OverrideValues, OverrideReads(a, o, lp)
  PROVE  RowsOK' /\ JobsOK' /\ ClosingOK'
<1> DEFINE tx == lpTx[o]
           plan == PlanOverride(tx.awarded, lp, stats[tx.season][tx.profile].lp, ladder,
                                EventsOf(tx.season, tx.profile),
                                vault[tx.season][tx.profile] = "active")
           job == [ pc |-> "override", order |-> o, tx |-> tx, awarded |-> lp, plan |-> plan ]
<1>1. tx \in TxRow
  BY DEF OverrideReads, RowsOK
<1>2. lp \in Nat /\ tx.awarded \in Nat
  BY <1>1, LevelPassAssumption DEF TxRow
<1>3. ladder \in SUBSET Thresholds
  BY LevelPassAssumption DEF RowsOK
<1>4. plan \in OverridePlans
  <2> DEFINE open == vault[tx.season][tx.profile] = "active"
             points == stats[tx.season][tx.profile].lp
  <2>1. open \in BOOLEAN /\ tx.awarded \in Int /\ lp \in Int
    BY <1>2
  <2> HIDE DEF open, points, tx
  <2>2. PlanOverride(tx.awarded, lp, points, ladder, EventsOf(tx.season, tx.profile), open)
          \in OverridePlans
    BY <1>3, <2>1, OverrideTypes
  <2> QED BY <2>2 DEF open, points
<1>5. Acts(a, job)
  BY DEF OverrideReads
<1>6. job \in AdminJobs
  <2> HIDE DEF tx, plan
  <2> QED BY <1>1, <1>2, <1>4 DEF AdminJobs
<1>7. RowsOK'
  BY DEF OverrideReads, RowsOK, progress, rewards, perks, calendar, setup
<1>8. JobsOK' /\ ClosingOK'
  <2> HIDE DEF job
  <2> QED BY <1>5, <1>6, AdminMovesOn DEF OverrideReads
<1> QED BY <1>7, <1>8

\* What an override makes of a row: the same kind of row, and none of those
\* that were granted.
LEMMA OverrideWritesEvents ==
  ASSUME RowsOK, NEW a \in Admins, OverrideWrites(a), NEW e \in Events
  PROVE  /\ event'[e] \in EventRow
         /\ \/ event'[e] = event[e]
            \/ /\ event[e].status = "none"
               /\ event'[e] = [ status |-> "pending", linked |-> FALSE ]
            \/ /\ event[e].status \in { "pending", "reversed" }
               /\ event'[e].status \in { "pending", "reversed" }
               /\ event'[e].linked = event[e].linked
<1> DEFINE j == admin[a]
           s == j.tx.season
           p == j.tx.profile
           new == { c \in j.plan.create : event[<<s, p, c>>].status = "none" }
<1>1. event[e] \in EventRow
  BY DEF RowsOK
<1>2. \/ event'[e] = event[e]
      \/ /\ e[1] = s /\ e[2] = p /\ e[3] \in new
         /\ event'[e] = [ status |-> "pending", linked |-> FALSE ]
      \/ /\ event[e].status = "reversed"
         /\ event'[e] = [event[e] EXCEPT !.status = "pending"]
      \/ /\ event[e].status = "pending"
         /\ event'[e] = [event[e] EXCEPT !.status = "reversed"]
  BY DEF OverrideWrites
<1>3. CASE e[1] = s /\ e[2] = p /\ e[3] \in new
           /\ event'[e] = [ status |-> "pending", linked |-> FALSE ]
  <2>1. e = <<s, p, e[3]>>
    BY <1>3 DEF Events
  <2>2. event[e].status = "none"
    BY <1>3, <2>1
  <2> QED BY <1>3, <2>2 DEF EventRow, EventStatuses
<1> HIDE DEF new, s, p
<1> QED BY <1>1, <1>2, <1>3 DEF EventRow, EventStatuses

LEMMA OverrideWritesTypes ==
  ASSUME RowsOK, JobsOK, ClosingOK, HoldsOK, NEW a \in Admins, OverrideWrites(a)
  PROVE  RowsOK' /\ JobsOK' /\ ClosingOK'
<1> DEFINE j == admin[a]
           s == j.tx.season
           p == j.tx.profile
<1>1. /\ j.order \in Orders /\ j.tx \in TxRow /\ j.awarded \in Nat
      /\ j.plan.delta \in Int
  BY AdminHolds DEF OverrideWrites, OverridePlans
<1>2. s \in Seasons /\ p \in Profiles
  BY <1>1 DEF TxRow
<1>3. JobsOK' /\ ClosingOK'
  BY IdleIsAJob, AdminMovesOn DEF OverrideWrites
<1>4. UNCHANGED <<status, skipped, lifetime, placed, ledger, calendar, setup>>
  BY DEF OverrideWrites
<1>5. lpTx' \in [Orders -> TxRow \cup {NoTx}]
  <2>1. lpTx[j.order] \in TxRow
    BY DEF HoldsOK, OverrideWrites
  <2>2. [lpTx[j.order] EXCEPT !.awarded = j.awarded] \in TxRow
    BY <1>1, <2>1 DEF TxRow
  <2>3. lpTx' = [lpTx EXCEPT ![j.order].awarded = j.awarded]
    BY DEF OverrideWrites
  <2> QED BY <2>2, <2>3 DEF RowsOK
<1>6. stats' \in [Seasons -> [Profiles -> StatsRow]]
  <2>1. stats[s][p] \in StatsRow
    BY <1>2 DEF RowsOK
  <2>2. AtLeastZero(stats[s][p].lp + j.plan.delta) \in Nat
    BY <1>1, <2>1, ZeroTypes DEF StatsRow
  <2> DEFINE row == [stats[s][p] EXCEPT !.lp = AtLeastZero(stats[s][p].lp + j.plan.delta)]
  <2>3. row \in StatsRow
    BY <2>1, <2>2 DEF StatsRow
  <2>4. stats' = [stats EXCEPT ![s][p] = row]
    BY DEF OverrideWrites
  <2>5. stats \in [Seasons -> [Profiles -> StatsRow]]
    BY DEF RowsOK
  <2> HIDE DEF row
  <2>6. [stats EXCEPT ![s][p] = row] \in [Seasons -> [Profiles -> StatsRow]]
    BY <1>2, <2>3, <2>5, TableTypes
  <2> QED BY <2>4, <2>6
<1>7. event' \in [Events -> EventRow]
  <2>1. \A e \in Events : event'[e] \in EventRow
    BY OverrideWritesEvents
  <2>2. event' = [e \in Events |-> event'[e]]
    BY DEF OverrideWrites
  <2> QED BY <2>1, <2>2
<1>8. vault' \in [Seasons -> [Profiles -> VaultStatuses]]
  <2>1. /\ vault \in [Seasons -> [Profiles -> VaultStatuses]]
        /\ "expired" \in VaultStatuses /\ "active" \in VaultStatuses
    BY DEF RowsOK, VaultStatuses
  <2>2. /\ [vault EXCEPT ![s][p] = "expired"] \in [Seasons -> [Profiles -> VaultStatuses]]
        /\ [vault EXCEPT ![s][p] = "active"] \in [Seasons -> [Profiles -> VaultStatuses]]
    BY <1>2, <2>1, TableTypes
  <2>3. \/ vault' = [vault EXCEPT ![s][p] = "active"]
        \/ vault' = [vault EXCEPT ![s][p] = "expired"]
        \/ vault' = vault
    BY DEF OverrideWrites
  <2> QED BY <2>1, <2>2, <2>3
<1> QED BY <1>3, <1>4, <1>5, <1>6, <1>7, <1>8 DEF RowsOK, calendar, setup

LEMMA CloseSeasonTypes ==
  ASSUME RowsOK, JobsOK, ClosingOK, NEW k \in Sweeps, CloseSeason(k)
  PROVE  RowsOK' /\ JobsOK' /\ ClosingOK'
<1> DEFINE j == sweep[k]
<1>1. j.season \in Seasons /\ j.season <= current
  BY SweepHolds DEF CloseSeason, ClosingOK
<1>2. /\ JobsOK' /\ sweep'[k] = Idle
      /\ \A l \in Sweeps \ {k} : sweep'[l] = sweep[l]
  BY IdleIsAJob, GoesTypes DEF CloseSeason
<1>3. UNCHANGED <<status, skipped, progress, rewards, setup>>
  BY DEF CloseSeason
<1>4. CASE current # j.season
  <2>1. UNCHANGED <<perks, calendar>>
    BY <1>4 DEF CloseSeason
  <2>2. RowsOK'
    BY <1>3, <2>1 DEF RowsOK, progress, rewards, perks, calendar, setup
  <2>3. ClosingOK'
    BY <1>2, <2>1, IdleIsAJob DEF ClosingOK, calendar
  <2> QED BY <1>2, <2>2, <2>3
<1>5. CASE current = j.season
  <2>1. due /\ current \in Nat /\ current + 1 \in Seasons
    BY <1>5, LevelPassAssumption DEF CloseSeason, ClosingOK
  <2>2. /\ current' = current + 1 /\ due' = FALSE
        /\ vault' = [vault EXCEPT ![j.season] =
               [p \in Profiles |-> IF @[p] = "active" THEN "expired" ELSE @[p]]]
    BY <1>5 DEF CloseSeason
  <2>3. vault' \in [Seasons -> [Profiles -> VaultStatuses]]
    <3> DEFINE row == [p \in Profiles |-> IF vault[j.season][p] = "active" THEN "expired"
                                          ELSE vault[j.season][p]]
    <3>1. row \in [Profiles -> VaultStatuses]
      BY <1>1 DEF RowsOK, VaultStatuses
    <3>2. vault' = [vault EXCEPT ![j.season] = row]
      BY <2>2
    <3> HIDE DEF row
    <3> QED BY <3>1, <3>2 DEF RowsOK
  <2>4. RowsOK'
    BY <1>3, <2>1, <2>2, <2>3 DEF RowsOK, progress, rewards, setup
  <2>5. ASSUME NEW l \in Sweeps, sweep'[l].pc = "close"
        PROVE  sweep'[l].season <= current' /\ sweep'[l].season # current'
    <3>1. l # k /\ sweep'[l] = sweep[l]
      BY <1>2, <2>5, IdleIsAJob
    <3>2. sweep[l].season \in Seasons /\ sweep[l].season <= current
      BY <2>5, <3>1, SweepHolds DEF ClosingOK
    <3>3. sweep[l].season \in Nat
      BY <3>2, LevelPassAssumption
    <3> QED BY <2>1, <2>2, <3>1, <3>2, <3>3
  <2>6. ClosingOK'
    BY <2>2, <2>5 DEF ClosingOK
  <2> QED BY <1>2, <2>4, <2>6
<1> QED BY <1>4, <1>5

\* What happens outside the sweeps and the panel.
Outside ==
  \/ \E o \in Orders : Complete(o) \/ AgesOut(o)
  \/ StartFirstSeason \/ SeasonEnds
  \/ \E p \in Profiles, id \in Ids : ChangeLinkedId(p, id)
  \/ \E l \in Ladders : SaveCheckpoints(l)

LEMMA OutsideTypes ==
  ASSUME RowsOK, JobsOK, ClosingOK, Outside
  PROVE  RowsOK' /\ JobsOK' /\ ClosingOK'
<1>1. UNCHANGED <<sweep, admin>>
  BY DEF Outside, Complete, AgesOut, StartFirstSeason, SeasonEnds, ChangeLinkedId,
         SaveCheckpoints
<1>2. JobsOK'
  BY <1>1 DEF JobsOK
<1>3. CASE \E o \in Orders : Complete(o) \/ AgesOut(o)
  <2>1. status' \in [Orders -> StatusesOfOrders]
    BY <1>3 DEF Complete, AgesOut, RowsOK, StatusesOfOrders
  <2>2. UNCHANGED <<skipped, progress, rewards, perks, current, due, setup>>
    BY <1>3 DEF Complete, AgesOut, calendar
  <2>3. RowsOK'
    BY <2>1, <2>2 DEF RowsOK, progress, rewards, perks, setup
  <2> QED BY <1>1, <1>2, <2>2, <2>3 DEF ClosingOK
<1>4. CASE StartFirstSeason
  <2>1. RowsOK'
    BY <1>4, LevelPassAssumption
       DEF StartFirstSeason, RowsOK, progress, rewards, perks, setup
  <2>2. ~due /\ due' = due /\ current = 0 /\ current' = 1
    BY <1>4 DEF StartFirstSeason, ClosingOK
  <2>3. \A k \in Sweeps : sweep[k].pc = "close" => sweep[k].season = 0
    <3>1. \A k \in Sweeps : sweep[k].pc = "close" =>
             sweep[k].season \in Nat /\ sweep[k].season <= 0
      BY <2>2, SweepHolds, LevelPassAssumption DEF ClosingOK
    <3> QED BY <3>1
  <2>4. ClosingOK'
    BY <1>1, <2>2, <2>3 DEF ClosingOK
  <2> QED BY <1>2, <2>1, <2>4
<1>5. CASE SeasonEnds
  <2>1. RowsOK'
    BY <1>5 DEF SeasonEnds, RowsOK, progress, rewards, perks, setup
  <2>2. ClosingOK'
    BY <1>1, <1>5 DEF SeasonEnds, ClosingOK, RowsOK
  <2> QED BY <1>2, <2>1, <2>2
<1>6. CASE \E p \in Profiles, id \in Ids : ChangeLinkedId(p, id)
  <2>1. linked' \in [Profiles -> Ids]
    BY <1>6 DEF ChangeLinkedId, RowsOK
  <2>2. UNCHANGED <<status, skipped, progress, rewards, perks, calendar, ladder>>
    BY <1>6 DEF ChangeLinkedId
  <2>3. RowsOK'
    BY <2>1, <2>2 DEF RowsOK, progress, rewards, perks, calendar
  <2> QED BY <1>1, <1>2, <2>2, <2>3 DEF ClosingOK, calendar
<1>7. CASE \E l \in Ladders : SaveCheckpoints(l)
  <2>1. RowsOK'
    BY <1>7 DEF SaveCheckpoints, RowsOK, progress, rewards, perks, calendar
  <2> QED BY <1>1, <1>2, <1>7, <2>1 DEF SaveCheckpoints, ClosingOK, calendar
<1> QED BY <1>3, <1>4, <1>5, <1>6, <1>7 DEF Outside

\* A row that is there stays there.
LEMMA HoldsStep ==
  ASSUME RowsOK, JobsOK, HoldsOK, RowsOK', [Next]_vars
  PROVE  HoldsOK'
<1> DEFINE Stays == \A o \in Orders : lpTx[o] \in TxRow => lpTx'[o] \in TxRow
           Idles(a) == admin'[a] = Idle
           Takes(a) == /\ admin'[a].pc = "reverse" => admin'[a].tx \in {NoTx, lpTx[admin'[a].order]}
                       /\ admin'[a].order \in Orders
                       /\ admin'[a].tx # NoTx => lpTx[admin'[a].order] \in TxRow
                       /\ admin'[a].pc = "override" => lpTx[admin'[a].order] \in TxRow
<1>1. NoTx \notin TxRow
  BY LevelPassAssumption DEF NoTx, TxRow
<1>2. \A o \in Orders : lpTx'[o] \in TxRow \/ lpTx'[o] = NoTx
  BY DEF RowsOK
<1>3. CASE UNCHANGED <<lpTx, admin>>
  BY <1>3 DEF HoldsOK
<1>4. ASSUME NEW k \in Sweeps, ApplyDecision(k) PROVE HoldsOK'
  <2>1. UNCHANGED admin
    BY <1>4 DEF ApplyDecision
  <2>2. \A o \in Orders : lpTx[o] \in TxRow => lpTx'[o] = lpTx[o]
    <3>1. UNCHANGED lpTx \/ /\ lpTx[sweep[k].order] = NoTx
                            /\ \E row : lpTx' = [lpTx EXCEPT ![sweep[k].order] = row]
      BY <1>4 DEF ApplyDecision, progress
    <3> QED BY <1>1, <3>1 DEF RowsOK
  <2>3. \A a \in Admins : admin[a].pc \in { "reverse", "override" } => admin[a].order \in Orders
    BY AdminHolds
  <2> QED BY <2>1, <2>2, <2>3 DEF HoldsOK
<1>5. ASSUME NEW a \in Admins, ReverseWrites(a) \/ OverrideWrites(a) PROVE HoldsOK'
  <2>1. admin' = [admin EXCEPT ![a] = Idle]
    BY <1>5 DEF ReverseWrites, OverrideWrites, Acts
  <2>2. \A o \in Orders : lpTx[o] \in TxRow =>
          /\ [lpTx[o] EXCEPT !.reversed = TRUE] \in TxRow
          /\ OverrideWrites(a) => [lpTx[o] EXCEPT !.awarded = admin[a].awarded] \in TxRow
    <3>1. OverrideWrites(a) => admin[a].awarded \in Nat
      BY AdminHolds DEF OverrideWrites
    <3> QED BY <3>1 DEF TxRow
  <2>3. \A o \in Orders : lpTx[o] \in TxRow => lpTx'[o] \in TxRow
    <3>1. CASE OverrideWrites(a)
      <4>1. lpTx' = [lpTx EXCEPT ![admin[a].order].awarded = admin[a].awarded]
        BY <3>1 DEF OverrideWrites
      <4> QED BY <2>2, <3>1, <4>1 DEF RowsOK
    <3>2. CASE ReverseWrites(a)
      <4>1. \/ UNCHANGED lpTx
            \/ lpTx' = [lpTx EXCEPT ![admin[a].order].reversed = TRUE]
        BY <3>2 DEF ReverseWrites, progress
      <4>2. ASSUME NEW o \in Orders, lpTx[o] \in TxRow, o = admin[a].order,
                   lpTx' = [lpTx EXCEPT ![admin[a].order].reversed = TRUE]
            PROVE  lpTx'[o] \in TxRow
        <5>1. lpTx'[o] = [lpTx[o] EXCEPT !.reversed = TRUE]
          BY <4>2 DEF RowsOK
        <5> QED BY <2>2, <4>2, <5>1
      <4>3. ASSUME NEW o \in Orders, lpTx[o] \in TxRow, o # admin[a].order
            PROVE  lpTx'[o] = lpTx[o]
        BY <4>1, <4>3 DEF RowsOK
      <4> QED BY <4>1, <4>2, <4>3
    <3> QED BY <1>5, <3>1, <3>2
  <2>4. \A b \in Admins : admin[b].pc \in { "reverse", "override" } => admin[b].order \in Orders
    BY AdminHolds
  <2>5. \A b \in Admins : admin'[b] = Idle \/ admin'[b] = admin[b]
    BY <2>1 DEF JobsOK
  <2> QED BY <2>3, <2>4, <2>5, IdleIsAJob DEF HoldsOK
<1>6. ASSUME NEW a \in Admins, NEW o \in Orders, ReverseReads(a, o) PROVE HoldsOK'
  <2>1. UNCHANGED lpTx
    BY <1>6 DEF ReverseReads, progress
  <2>2. PICK plan : admin' = [admin EXCEPT ![a] =
          [ pc |-> "reverse", order |-> o,
            tx |-> IF lpTx[o].reversed THEN NoTx ELSE lpTx[o], plan |-> plan ]]
    BY <1>6 DEF ReverseReads, Acts
  <2>3. lpTx[o] \in TxRow \/ lpTx[o] = NoTx
    BY DEF RowsOK
  <2> QED BY <2>1, <2>2, <2>3 DEF HoldsOK, JobsOK
<1>7. ASSUME NEW a \in Admins, NEW o \in Orders, NEW lp \in OverrideValues,
             OverrideReads(a, o, lp)
      PROVE  HoldsOK'
  <2>1. UNCHANGED lpTx /\ lpTx[o] \in TxRow
    BY <1>7 DEF OverrideReads, progress, RowsOK
  <2>2. PICK plan : admin' = [admin EXCEPT ![a] =
          [ pc |-> "override", order |-> o, tx |-> lpTx[o], awarded |-> lp, plan |-> plan ]]
    BY <1>7 DEF OverrideReads, Acts
  <2> QED BY <2>1, <2>2 DEF HoldsOK, JobsOK
<1>8. \/ UNCHANGED <<lpTx, admin>>
      \/ \E k \in Sweeps : ApplyDecision(k)
      \/ \E a \in Admins : \/ ReverseWrites(a) \/ OverrideWrites(a)
                           \/ \E o \in Orders : ReverseReads(a, o)
                           \/ \E o \in Orders, lp \in OverrideValues : OverrideReads(a, o, lp)
  BY DEF Next, vars, progress, Complete, AgesOut, SweepStep, RunLevelPassSync,
         RunRewardDelivery, RunSeasonClose, FindUnprocessed, FindSeason, ReadPlayer,
         FindGrantable, PlaceReward, FindDelivered, GrantReward, FindDue, CloseSeason,
         SweepFails, ReverseOrder, OverrideLp, StartFirstSeason, SeasonEnds, ChangeLinkedId,
         SaveCheckpoints
<1> QED BY <1>3, <1>4, <1>5, <1>6, <1>7, <1>8

LEMMA TypesInit == Init => TypeInv
<1> SUFFICES ASSUME Init PROVE TypeInv
  OBVIOUS
<1>1. RowsOK
  BY LevelPassAssumption
     DEF Init, RowsOK, StatusesOfOrders, TxRow, NoTx, StatsRow, LifetimeRow, EventRow,
         EventStatuses, NoEvent, VaultStatuses
<1>2. JobsOK
  BY IdleIsAJob DEF Init, JobsOK
<1>3. ClosingOK /\ HoldsOK
  BY IdleIsAJob DEF Init, ClosingOK, HoldsOK
<1> QED BY <1>1, <1>2, <1>3, RowsAndJobs DEF TypeInv

LEMMA TypesStep == TypeInv /\ [Next]_vars => TypeInv'
<1> SUFFICES ASSUME TypeInv, [Next]_vars PROVE TypeInv'
  OBVIOUS
<1>1. RowsOK /\ JobsOK /\ ClosingOK /\ HoldsOK
  BY RowsOfTypes DEF TypeInv
<1>2. RowsOK' /\ JobsOK' /\ ClosingOK'
  <2>1. ASSUME NEW k \in Sweeps, SweepStep(k) \/ SweepFails(k)
        PROVE  RowsOK' /\ JobsOK' /\ ClosingOK'
    BY <1>1, <2>1, FindUnprocessedTypes, FindSeasonTypes, ReadPlayerTypes, ApplyDecisionTypes,
       FindGrantableTypes, PlaceRewardTypes, FindDeliveredTypes, GrantRewardTypes,
       FindDueTypes, CloseSeasonTypes, SweepFailsTypes
       DEF SweepStep, RunLevelPassSync, RunRewardDelivery, RunSeasonClose
  <2>2. ASSUME NEW a \in Admins, ReverseOrder(a) \/ OverrideLp(a)
        PROVE  RowsOK' /\ JobsOK' /\ ClosingOK'
    BY <1>1, <2>2, ReverseReadsTypes, ReverseWritesTypes, OverrideReadsTypes,
       OverrideWritesTypes DEF ReverseOrder, OverrideLp
  <2>3. CASE Outside
    BY <1>1, <2>3, OutsideTypes
  <2>4. CASE UNCHANGED vars
    BY <1>1, <2>4 DEF vars, RowsOK, JobsOK, ClosingOK, progress, rewards, perks, calendar, setup
  <2> QED BY <2>1, <2>2, <2>3, <2>4 DEF Next, Outside
<1>3. HoldsOK'
  BY <1>1, <1>2, HoldsStep
<1> QED BY <1>2, <1>3, RowsAndJobsNext DEF TypeInv

(* The rows keep their shapes and their ranges: no counter becomes         *)
(* negative, and every sweep and every admin is at a point of its code.    *)
THEOREM LevelPassTypes == Spec => []TypeOK
<1>1. Spec => []TypeInv
  BY TypesInit, TypesStep, PTL DEF Spec
<1>2. TypeInv => TypeOK
  BY DEF TypeInv
<1> QED BY <1>1, <1>2, PTL

------------------------------------------------------------------------------
(* The books.                                                              *)

\* A reward order exists once it is linked and never before.
LinksInv ==
  \A e \in Events : /\ ~event[e].linked => status[e] = "none"
                    /\ event[e].status = "none" => ~event[e].linked

\* A sweep about to place or to grant an event has seen it reached, or
\* delivered.
Reached(e) == event[e].status # "none"
Delivered(e) == event[e].linked /\ status[e] \in {"completed", "refunded"}
SweepsHold ==
  \A k \in Sweeps :
    /\ sweep[k].pc = "place" => \A e \in sweep[k].todo : Reached(e)
    /\ sweep[k].pc = "grant" => \A e \in sweep[k].todo : Delivered(e)

\* Of the admins about to refund a completed order there is one.
ReversalsHeld ==
  /\ \A a \in Admins : admin[a].pc = "reverse" => status[admin[a].order] = "completed"
  /\ \A a, b \in Admins : /\ admin[a].pc = "reverse" /\ admin[b].pc = "reverse"
                          /\ admin[a].order = admin[b].order
                          => a = b

BooksInv == RewardsAreBooked /\ RefundsAreBooked /\ LinksInv /\ SweepsHold /\ ReversalsHeld

LEMMA BooksInit == Init => BooksInv
<1> SUFFICES ASSUME Init PROVE BooksInv
  OBVIOUS
<1>1. RewardsAreBooked /\ LinksInv
  BY OrdersAreApart DEF Init, RewardsAreBooked, LinksInv, NoEvent, Orders
<1>2. RefundsAreBooked
  BY DEF Init, RefundsAreBooked, NoTx
<1>3. SweepsHold /\ ReversalsHeld
  BY IdleIsAJob DEF Init, SweepsHold, ReversalsHeld
<1> QED BY <1>1, <1>2, <1>3 DEF BooksInv

\* Sweeps that hold no more than they did, and deliveries that stand.
LEMMA SweepsKept ==
  ASSUME JobsOK, SweepsHold,
         \A k \in Sweeps : sweep'[k].pc \in { "place", "grant" } =>
            sweep'[k].pc = sweep[k].pc /\ sweep'[k].todo \subseteq sweep[k].todo,
         \A e \in Events : (Reached(e) => Reached(e)') /\ (Delivered(e) => Delivered(e)')
  PROVE  SweepsHold'
<1>1. \A k \in Sweeps : sweep[k].pc \in { "place", "grant" } => sweep[k].todo \subseteq Events
  BY SweepHolds
<1> QED BY <1>1 DEF SweepsHold

\* Steps that touch neither the events nor the books nor the orders, whoever
\* moves on, unless they find deliveries or take an order to reverse.
LEMMA BooksIdle ==
  ASSUME JobsOK, BooksInv, UNCHANGED <<status, event, placed, ledger, lpTx>>,
         \A k \in Sweeps : sweep'[k].pc \in { "place", "grant" } =>
            sweep'[k].pc = sweep[k].pc /\ sweep'[k].todo \subseteq sweep[k].todo,
         \A a \in Admins : admin'[a].pc = "reverse" => admin'[a] = admin[a]
  PROVE  BooksInv'
<1>1. RewardsAreBooked' /\ RefundsAreBooked' /\ LinksInv'
  BY DEF BooksInv, RewardsAreBooked, RefundsAreBooked, LinksInv
<1>2. SweepsHold'
  BY SweepsKept DEF BooksInv, Reached, Delivered
<1>3. ReversalsHeld'
  BY DEF BooksInv, ReversalsHeld
<1> QED BY <1>1, <1>2, <1>3 DEF BooksInv

\* A query of events to place or to grant.
LEMMA FindEventsBooks ==
  ASSUME JobsOK, BooksInv, NEW k \in Sweeps, FindGrantable(k) \/ FindDelivered(k)
  PROVE  BooksInv'
<1>1. PICK job :
         /\ sweep' = [sweep EXCEPT ![k] = job]
         /\ \/ job.pc = "place" /\ \A e \in job.todo : Reached(e)
            \/ job.pc = "grant" /\ \A e \in job.todo : Delivered(e)
  <2>1. CASE FindGrantable(k)
    <3>1. PICK batch : /\ Goes(k, [ pc |-> "place", todo |-> batch, recipes |-> Recipes ])
                       /\ \A e \in batch : event[e].status = "pending"
      BY <2>1, OldestTypes DEF FindGrantable
    <3> DEFINE job == [ pc |-> "place", todo |-> batch, recipes |-> Recipes ]
    <3>2. /\ sweep' = [sweep EXCEPT ![k] = job] /\ job.pc = "place"
          /\ \A e \in job.todo : Reached(e)
      BY <3>1 DEF Goes, Reached
    <3> QED BY <3>2
  <2>2. CASE FindDelivered(k)
    <3>1. PICK batch : /\ Goes(k, [ pc |-> "grant", todo |-> batch ])
                       /\ \A e \in batch : event[e].linked /\ status[e] = "completed"
      BY <2>2, BatchTypes DEF FindDelivered
    <3> DEFINE job == [ pc |-> "grant", todo |-> batch ]
    <3>2. /\ sweep' = [sweep EXCEPT ![k] = job] /\ job.pc = "grant"
          /\ \A e \in job.todo : Delivered(e)
      BY <3>1 DEF Goes, Delivered
    <3> QED BY <3>2
  <2> QED BY <2>1, <2>2
<1>2. UNCHANGED <<status, event, placed, ledger, lpTx, admin>>
  BY DEF FindGrantable, FindDelivered, progress, rewards
<1>3. RewardsAreBooked' /\ RefundsAreBooked' /\ LinksInv' /\ ReversalsHeld'
  BY <1>2 DEF BooksInv, RewardsAreBooked, RefundsAreBooked, LinksInv, ReversalsHeld
<1>4. \A l \in Sweeps : sweep'[l] = IF l = k THEN job ELSE sweep[l]
  BY <1>1 DEF JobsOK
<1>5. SweepsHold'
  BY <1>1, <1>2, <1>4 DEF BooksInv, SweepsHold, Reached, Delivered
<1> QED BY <1>3, <1>5 DEF BooksInv

LEMMA ApplyDecisionBooks ==
  ASSUME RowsOK, JobsOK, BooksInv, NEW k \in Sweeps, ApplyDecision(k)
  PROVE  BooksInv'
<1> DEFINE j == sweep[k]
<1>1. UNCHANGED <<status, placed, ledger, admin>>
  BY DEF ApplyDecision
<1>2. \A e \in Events : \/ event'[e] = event[e]
                        \/ /\ event[e].status = "none"
                           /\ event'[e] = [ status |-> "pending", linked |-> FALSE ]
  <2>1. CASE lpTx[j.order] # NoTx
    BY <2>1 DEF ApplyDecision
  <2>2. CASE lpTx[j.order] = NoTx
    <3> DEFINE new == { c \in j.decision.crossed :
                          event[<<j.season, j.profile, c>>].status = "none" }
    <3>1. event' = [e \in Events |->
             IF e[1] = j.season /\ e[2] = j.profile /\ e[3] \in new
             THEN [ status |-> "pending", linked |-> FALSE ] ELSE event[e]]
      BY <2>2 DEF ApplyDecision
    <3>2. ASSUME NEW e \in Events, e[1] = j.season, e[2] = j.profile, e[3] \in new
          PROVE  event[e].status = "none"
      <4>1. e = <<j.season, j.profile, e[3]>>
        BY <3>2 DEF Events
      <4> QED BY <3>2, <4>1
    <3> HIDE DEF new
    <3> QED BY <3>1, <3>2
  <2> QED BY <2>1, <2>2
<1>3. RewardsAreBooked' /\ LinksInv'
  BY <1>1, <1>2 DEF BooksInv, RewardsAreBooked, LinksInv
<1>4. RefundsAreBooked'
  <2>1. \/ UNCHANGED lpTx
        \/ \E row : row.reversed = FALSE /\ lpTx' = [lpTx EXCEPT ![j.order] = row]
    BY DEF ApplyDecision, progress
  <2>2. \A o \in Orders : lpTx'[o] = lpTx[o] \/ lpTx'[o].reversed = FALSE
    BY <2>1 DEF RowsOK
  <2> QED BY <1>1, <2>2 DEF BooksInv, RefundsAreBooked
<1>5. SweepsHold'
  <2>1. j.todo \in SUBSET Paid
    BY SweepHolds DEF ApplyDecision
  <2>2. \A l \in Sweeps : sweep'[l] = IF l = k THEN OnTo(j.todo, j.order) ELSE sweep[l]
    BY DEF ApplyDecision, Goes, JobsOK
  <2>3. OnTo(j.todo, j.order).pc \notin { "place", "grant" }
    BY <2>1, OnToTypes
  <2>4. \A e \in Events : (Reached(e) => Reached(e)') /\ (Delivered(e) => Delivered(e)')
    BY <1>1, <1>2 DEF Reached, Delivered, BooksInv, LinksInv
  <2>5. \A l \in Sweeps : sweep'[l].pc \in { "place", "grant" } =>
           sweep'[l].pc = sweep[l].pc /\ sweep'[l].todo \subseteq sweep[l].todo
    BY <2>2, <2>3
  <2> QED BY <2>4, <2>5, SweepsKept DEF BooksInv
<1>6. ReversalsHeld'
  BY <1>1 DEF BooksInv, ReversalsHeld
<1> QED BY <1>3, <1>4, <1>5, <1>6 DEF BooksInv

LEMMA PlaceRewardBooks ==
  ASSUME RowsOK, JobsOK, BooksInv, NEW k \in Sweeps, PlaceReward(k)
  PROVE  BooksInv'
<1>1. sweep[k] \in [ pc : {"place"}, todo : SUBSET Events, recipes : SUBSET Thresholds ]
  BY SweepHolds DEF PlaceReward
<1>2. PICK e \in sweep[k].todo :
         /\ CreateRewardOrder(e) \/ UNCHANGED <<event, placed, status>>
         /\ sweep' = [sweep EXCEPT ![k] = AfterEvent(sweep[k], e)]
  BY DEF PlaceReward, Goes
<1>3. e \in Events /\ e \in Orders
  BY <1>1, <1>2 DEF Orders
<1>4. UNCHANGED <<ledger, lpTx, admin>>
  BY DEF PlaceReward, progress
<1>5. \A l \in Sweeps : sweep'[l].pc \in { "place", "grant" } =>
         sweep'[l].pc = sweep[l].pc /\ sweep'[l].todo \subseteq sweep[l].todo
  BY <1>1, <1>2, AfterEventTypes DEF JobsOK
<1>6. CASE UNCHANGED <<event, placed, status>>
  BY <1>4, <1>5, <1>6, BooksIdle
<1>7. CASE ~event[e].linked /\ CreateRewardOrder(e)
  <2>1. /\ status[e] = "none" /\ event[e].status # "granted" /\ placed[e] = 0
        /\ event[e] \in EventRow
    BY <1>3, <1>7 DEF BooksInv, LinksInv, RewardsAreBooked, RowsOK
  <2>2. event[e].status # "none"
    BY <1>1, <1>2 DEF BooksInv, SweepsHold, Reached
  <2>3. /\ event' = [event EXCEPT ![e].linked = TRUE]
        /\ placed' = [placed EXCEPT ![e] = @ + 1]
        /\ status' = [status EXCEPT ![e] = "processing"]
    BY <1>7 DEF CreateRewardOrder
  <2>4. /\ event'[e].status = event[e].status /\ event'[e].linked
        /\ placed'[e] = 1
        /\ \A d \in Events \ {e} : event'[d] = event[d] /\ placed'[d] = placed[d]
    BY <1>3, <2>1, <2>3 DEF RowsOK, EventRow
  <2>5. status'[e] = "processing" /\ \A o \in Orders \ {e} : status'[o] = status[o]
    BY <1>3, <2>3 DEF RowsOK
  <2>6. Events \subseteq Orders
    BY DEF Orders
  <2>7. RewardsAreBooked'
    BY <1>4, <2>1, <2>4, <2>5, <2>6 DEF BooksInv, RewardsAreBooked
  <2>8. RefundsAreBooked'
    BY <1>4, <2>1, <2>5 DEF BooksInv, RefundsAreBooked
  <2>9. LinksInv'
    BY <2>2, <2>4, <2>5, <2>6 DEF BooksInv, LinksInv
  <2>10. \A d \in Events : (Reached(d) => Reached(d)') /\ (Delivered(d) => Delivered(d)')
    BY <2>1, <2>4, <2>5, <2>6 DEF Reached, Delivered
  <2>11. SweepsHold'
    BY <1>5, <2>10, SweepsKept DEF BooksInv
  <2>12. ReversalsHeld'
    BY <1>4, <2>1, <2>5, AdminHolds DEF BooksInv, ReversalsHeld
  <2> QED BY <2>7, <2>8, <2>9, <2>11, <2>12 DEF BooksInv
<1> QED BY <1>2, <1>6, <1>7 DEF CreateRewardOrder

LEMMA GrantRewardBooks ==
  ASSUME RowsOK, JobsOK, BooksInv, NEW k \in Sweeps, GrantReward(k)
  PROVE  BooksInv'
<1>1. sweep[k] \in [ pc : {"grant"}, todo : SUBSET Events ]
  BY SweepHolds DEF GrantReward
<1>2. PICK e \in sweep[k].todo :
         Grant(e) /\ sweep' = [sweep EXCEPT ![k] = AfterEvent(sweep[k], e)]
  BY DEF GrantReward, Goes
<1>3. e \in Events /\ Delivered(e) /\ Events \subseteq Orders
  BY <1>1, <1>2 DEF Orders, BooksInv, SweepsHold
<1>4. UNCHANGED <<status, placed, lpTx, admin>>
  BY DEF GrantReward, progress
<1>5. \A l \in Sweeps : sweep'[l].pc \in { "place", "grant" } =>
         sweep'[l].pc = sweep[l].pc /\ sweep'[l].todo \subseteq sweep[l].todo
  BY <1>1, <1>2, AfterEventTypes DEF JobsOK
<1>6. CASE UNCHANGED <<event, ledger>>
  BY <1>4, <1>5, <1>6, BooksIdle
<1>7. CASE event[e].status = "pending" /\ Grant(e)
  <2>1. /\ event' = [event EXCEPT ![e].status = "granted"]
        /\ ledger' = [ledger EXCEPT !.expenses[e] = @ + 1]
    BY <1>7 DEF Grant
  <2>2. ledger.expenses[e] = 0 /\ event[e] \in EventRow
    BY <1>3, <1>7 DEF BooksInv, RewardsAreBooked, RowsOK
  <2>3. /\ event'[e].status = "granted" /\ event'[e].linked = event[e].linked
        /\ \A d \in Events \ {e} : event'[d] = event[d]
    BY <1>3, <2>1, <2>2 DEF RowsOK, EventRow
  <2>4. /\ ledger'.expenses[e] = 1 /\ ledger'.refunds = ledger.refunds
        /\ \A d \in Events \ {e} : ledger'.expenses[d] = ledger.expenses[d]
    BY <1>3, <2>1, <2>2 DEF RowsOK
  <2>5. RewardsAreBooked'
    <3>1. /\ event'[e].linked /\ status'[e] \in {"completed", "refunded"}
          /\ placed[e] = 1 /\ placed'[e] = 1
      BY <1>3, <1>4, <2>3 DEF BooksInv, RewardsAreBooked, Delivered
    <3>2. \A d \in Events \ {e} :
            /\ event'[d] = event[d] /\ placed'[d] = placed[d] /\ status'[d] = status[d]
            /\ ledger'.expenses[d] = ledger.expenses[d]
      BY <1>4, <2>3, <2>4
    <3>3. RewardsAreBooked
      BY DEF BooksInv
    <3> QED BY <2>3, <2>4, <3>1, <3>2, <3>3 DEF RewardsAreBooked
  <2>6. RefundsAreBooked'
    BY <1>4, <2>4 DEF BooksInv, RefundsAreBooked
  <2>7. LinksInv'
    BY <1>3, <1>4, <2>3 DEF BooksInv, LinksInv, Delivered
  <2>8. \A d \in Events : (Reached(d) => Reached(d)') /\ (Delivered(d) => Delivered(d)')
    BY <1>4, <2>3 DEF Reached, Delivered
  <2>9. SweepsHold'
    BY <1>5, <2>8, SweepsKept DEF BooksInv
  <2>10. ReversalsHeld'
    BY <1>4 DEF BooksInv, ReversalsHeld
  <2> QED BY <2>5, <2>6, <2>7, <2>9, <2>10 DEF BooksInv
<1> QED BY <1>2, <1>6, <1>7 DEF Grant

LEMMA ReverseReadsBooks ==
  ASSUME JobsOK, BooksInv, NEW a \in Admins, NEW o \in Orders, ReverseReads(a, o)
  PROVE  BooksInv'
<1>1. PICK held, plan :
         admin' = [admin EXCEPT ![a] = [ pc |-> "reverse", order |-> o, tx |-> held,
                                        plan |-> plan ]]
  BY DEF ReverseReads, Acts
<1> DEFINE job == [ pc |-> "reverse", order |-> o, tx |-> held, plan |-> plan ]
<1>2. /\ status[o] = "completed"
      /\ \A b \in Admins : admin[b].pc = "reverse" => admin[b].order # o
  BY DEF ReverseReads, Locked
<1>3. UNCHANGED <<status, event, placed, ledger, lpTx, sweep>>
  BY DEF ReverseReads, progress, rewards
<1>4. RewardsAreBooked' /\ RefundsAreBooked' /\ LinksInv' /\ SweepsHold'
  BY <1>3 DEF BooksInv, RewardsAreBooked, RefundsAreBooked, LinksInv, SweepsHold, Reached,
              Delivered
<1>5. \A b \in Admins : admin'[b] = IF b = a THEN job ELSE admin[b]
  BY <1>1 DEF JobsOK
<1>6. ReversalsHeld'
  BY <1>1, <1>2, <1>3, <1>5 DEF BooksInv, ReversalsHeld
<1> QED BY <1>4, <1>6 DEF BooksInv

LEMMA ReverseWritesBooks ==
  ASSUME RowsOK, JobsOK, HoldsOK, BooksInv, NEW a \in Admins, ReverseWrites(a)
  PROVE  BooksInv'
<1> DEFINE j == admin[a]
           o == j.order
<1>1. o \in Orders /\ status[o] = "completed" /\ Events \subseteq Orders
  BY AdminHolds DEF ReverseWrites, BooksInv, ReversalsHeld, Orders
<1>2. UNCHANGED <<placed, sweep>>
  BY DEF ReverseWrites
<1>3. /\ admin' = [admin EXCEPT ![a] = Idle]
      /\ status' = [status EXCEPT ![o] = "refunded"]
      /\ ledger' = [ledger EXCEPT !.refunds[o] = @ + 1]
  BY DEF ReverseWrites, Acts
<1>4. status'[o] = "refunded" /\ \A q \in Orders \ {o} : status'[q] = status[q]
  BY <1>1, <1>3 DEF RowsOK
<1>5. /\ ledger'.refunds[o] = 1 /\ ledger'.expenses = ledger.expenses
      /\ \A q \in Orders \ {o} : ledger'.refunds[q] = ledger.refunds[q]
  <2>1. ledger.refunds[o] = 0
    BY <1>1 DEF BooksInv, RefundsAreBooked
  <2> QED BY <1>1, <1>3, <2>1 DEF RowsOK
<1>6. \A e \in Events : \/ event'[e] = event[e]
                        \/ /\ event[e].status = "pending" /\ event'[e].status = "reversed"
                           /\ event'[e].linked = event[e].linked
  <2>1. CASE UNCHANGED event
    BY <2>1
  <2>2. CASE event' = Revoke(j.tx.season, j.tx.profile, j.plan.reverse)
    <3>1. \A e \in Events : event[e] \in EventRow
      BY DEF RowsOK
    <3> QED BY <2>2, <3>1 DEF Revoke, EventRow
  <2> QED BY <2>1, <2>2 DEF ReverseWrites
<1>7. \A q \in Orders \ {o} : lpTx'[q] = lpTx[q]
  <2>1. \/ UNCHANGED lpTx
        \/ lpTx' = [lpTx EXCEPT ![o].reversed = TRUE]
    BY DEF ReverseWrites, progress
  <2> QED BY <2>1 DEF RowsOK
<1>8. RewardsAreBooked'
  BY <1>1, <1>2, <1>4, <1>5, <1>6 DEF BooksInv, RewardsAreBooked
<1>9. RefundsAreBooked'
  BY <1>4, <1>5, <1>7 DEF BooksInv, RefundsAreBooked
<1>10. LinksInv'
  BY <1>1, <1>4, <1>6 DEF BooksInv, LinksInv
<1>11. \A d \in Events : (Reached(d) => Reached(d)') /\ (Delivered(d) => Delivered(d)')
  BY <1>1, <1>4, <1>6 DEF Reached, Delivered
<1>12. SweepsHold'
  BY <1>2, <1>11, SweepsKept DEF BooksInv
<1>13. ReversalsHeld'
  <2>1. admin'[a].pc = "idle" /\ \A b \in Admins \ {a} : admin'[b] = admin[b]
    BY <1>3, IdleIsAJob DEF JobsOK
  <2>2. \A b \in Admins \ {a} : admin[b].pc = "reverse" => admin[b].order \in Orders \ {o}
    BY AdminHolds DEF BooksInv, ReversalsHeld, ReverseWrites
  <2> QED BY <1>4, <2>1, <2>2 DEF BooksInv, ReversalsHeld
<1> QED BY <1>8, <1>9, <1>10, <1>12, <1>13 DEF BooksInv

LEMMA OverrideWritesBooks ==
  ASSUME RowsOK, JobsOK, HoldsOK, BooksInv, NEW a \in Admins, OverrideWrites(a)
  PROVE  BooksInv'
<1>1. UNCHANGED <<status, placed, ledger, sweep>>
  BY DEF OverrideWrites
<1>2. admin' = [admin EXCEPT ![a] = Idle]
  BY DEF OverrideWrites, Acts
<1>3. \A e \in Events :
         \/ event'[e] = event[e]
         \/ /\ event[e].status = "none"
            /\ event'[e] = [ status |-> "pending", linked |-> FALSE ]
         \/ /\ event[e].status \in { "pending", "reversed" }
            /\ event'[e].status \in { "pending", "reversed" }
            /\ event'[e].linked = event[e].linked
  BY OverrideWritesEvents
<1>4. \A o \in Orders : lpTx'[o] = lpTx[o] \/ lpTx'[o].reversed = lpTx[o].reversed
  <2>1. lpTx' = [lpTx EXCEPT ![admin[a].order].awarded = admin[a].awarded]
    BY DEF OverrideWrites
  <2>2. lpTx[admin[a].order] \in TxRow
    BY DEF HoldsOK, OverrideWrites
  <2>3. \A o \in Orders \ {admin[a].order} : lpTx'[o] = lpTx[o]
    BY <2>1 DEF RowsOK
  <2>4. admin[a].order \in Orders =>
          lpTx'[admin[a].order] = [lpTx[admin[a].order] EXCEPT !.awarded = admin[a].awarded]
    BY <2>1 DEF RowsOK
  <2> QED BY <2>2, <2>3, <2>4 DEF TxRow
<1>5. RewardsAreBooked'
  BY <1>1, <1>3 DEF BooksInv, RewardsAreBooked, LinksInv
<1>6. RefundsAreBooked'
  BY <1>1, <1>4 DEF BooksInv, RefundsAreBooked
<1>7. LinksInv'
  BY <1>1, <1>3 DEF BooksInv, LinksInv
<1>8. \A d \in Events : (Reached(d) => Reached(d)') /\ (Delivered(d) => Delivered(d)')
  BY <1>1, <1>3 DEF Reached, Delivered, BooksInv, LinksInv
<1>9. SweepsHold'
  BY <1>1, <1>8, SweepsKept DEF BooksInv
<1>10. ReversalsHeld'
  BY <1>1, <1>2, IdleIsAJob DEF BooksInv, ReversalsHeld, JobsOK
<1> QED BY <1>5, <1>6, <1>7, <1>9, <1>10 DEF BooksInv

LEMMA CompleteBooks ==
  ASSUME RowsOK, JobsOK, BooksInv, NEW o \in Orders, Complete(o)
  PROVE  BooksInv'
<1>1. UNCHANGED <<event, placed, ledger, lpTx, sweep, admin>>
  BY DEF Complete, progress, rewards
<1>2. /\ status[o] = "processing" /\ status'[o] = "completed"
      /\ \A q \in Orders \ {o} : status'[q] = status[q]
  BY DEF Complete, RowsOK
<1>3. Events \subseteq Orders
  BY DEF Orders
<1>4. RewardsAreBooked'
  BY <1>1, <1>2, <1>3 DEF BooksInv, RewardsAreBooked
<1>5. RefundsAreBooked'
  BY <1>1, <1>2 DEF BooksInv, RefundsAreBooked
<1>6. LinksInv'
  BY <1>1, <1>2, <1>3 DEF BooksInv, LinksInv
<1>7. \A d \in Events : (Reached(d) => Reached(d)') /\ (Delivered(d) => Delivered(d)')
  BY <1>1, <1>2, <1>3 DEF Reached, Delivered
<1>8. SweepsHold'
  BY <1>1, <1>7, SweepsKept DEF BooksInv
<1>9. ReversalsHeld'
  BY <1>1, <1>2, AdminHolds DEF BooksInv, ReversalsHeld
<1> QED BY <1>4, <1>5, <1>6, <1>8, <1>9 DEF BooksInv

\* Steps that leave the books alone.
LEMMA OtherBooks ==
  ASSUME JobsOK, BooksInv,
         \/ \E k \in Sweeps : \/ FindUnprocessed(k) \/ FindSeason(k) \/ ReadPlayer(k)
                              \/ FindDue(k) \/ CloseSeason(k) \/ SweepFails(k)
         \/ \E a \in Admins, o \in Orders, lp \in OverrideValues : OverrideReads(a, o, lp)
         \/ \E o \in Orders : AgesOut(o)
         \/ StartFirstSeason \/ SeasonEnds
         \/ \E p \in Profiles, id \in Ids : ChangeLinkedId(p, id)
         \/ \E l \in Ladders : SaveCheckpoints(l)
         \/ UNCHANGED vars
  PROVE  BooksInv'
<1>1. UNCHANGED <<status, event, placed, ledger, lpTx>>
  BY DEF FindUnprocessed, FindSeason, ReadPlayer, FindDue, CloseSeason, SweepFails,
         OverrideReads, AgesOut, StartFirstSeason, SeasonEnds, ChangeLinkedId,
         SaveCheckpoints, vars, progress, rewards
<1>2. ASSUME NEW k \in Sweeps,
             \/ FindUnprocessed(k) \/ FindSeason(k) \/ ReadPlayer(k)
             \/ FindDue(k) \/ CloseSeason(k) \/ SweepFails(k)
      PROVE  /\ UNCHANGED admin
             /\ \E job : /\ job.pc \notin { "place", "grant" }
                         /\ sweep' = [sweep EXCEPT ![k] = job]
  <2>1. UNCHANGED admin
    BY <1>2 DEF FindUnprocessed, FindSeason, ReadPlayer, FindDue, CloseSeason, SweepFails
  <2>2. \A todo \in SUBSET Paid : \A o : OnTo(todo, o).pc \notin { "place", "grant" }
    BY OnToTypes
  <2>3. CASE FindUnprocessed(k)
    BY <2>3 DEF FindUnprocessed, Goes
  <2>4. CASE FindSeason(k)
    <3>1. sweep[k].todo \in SUBSET Paid
      BY <2>4, SweepHolds DEF FindSeason
    <3> QED BY <2>1, <2>2, <2>4, <3>1 DEF FindSeason, Goes
  <2>5. CASE ReadPlayer(k)
    <3>1. sweep[k].todo \in SUBSET Paid
      BY <2>5, SweepHolds DEF ReadPlayer
    <3> QED BY <2>1, <2>2, <2>5, <3>1 DEF ReadPlayer, Goes
  <2>6. CASE FindDue(k)
    BY <2>1, <2>6 DEF FindDue, Goes
  <2>7. CASE CloseSeason(k) \/ SweepFails(k)
    BY <2>1, <2>7, IdleIsAJob DEF CloseSeason, SweepFails, Goes
  <2> QED BY <1>2, <2>1, <2>3, <2>4, <2>5, <2>6, <2>7
<1>3. CASE \E k \in Sweeps : \/ FindUnprocessed(k) \/ FindSeason(k) \/ ReadPlayer(k)
                             \/ FindDue(k) \/ CloseSeason(k) \/ SweepFails(k)
  <2>1. \A k \in Sweeps : sweep'[k].pc \in { "place", "grant" } => sweep'[k] = sweep[k]
    BY <1>2, <1>3 DEF JobsOK
  <2> QED BY <1>1, <1>2, <1>3, <2>1, BooksIdle
<1>4. CASE \E a \in Admins, o \in Orders, lp \in OverrideValues : OverrideReads(a, o, lp)
  <2>1. PICK a \in Admins, o \in Orders, lp \in OverrideValues : OverrideReads(a, o, lp)
    BY <1>4
  <2>2. PICK plan : admin' = [admin EXCEPT ![a] =
          [ pc |-> "override", order |-> o, tx |-> lpTx[o], awarded |-> lp, plan |-> plan ]]
    BY <2>1 DEF OverrideReads, Acts
  <2>3. UNCHANGED sweep /\ \A b \in Admins : admin'[b].pc = "reverse" => admin'[b] = admin[b]
    BY <2>1, <2>2 DEF OverrideReads, JobsOK
  <2> QED BY <1>1, <2>3, BooksIdle
<1>5. CASE \/ \E o \in Orders : AgesOut(o)
           \/ StartFirstSeason \/ SeasonEnds
           \/ \E p \in Profiles, id \in Ids : ChangeLinkedId(p, id)
           \/ \E l \in Ladders : SaveCheckpoints(l)
           \/ UNCHANGED vars
  <2>1. UNCHANGED <<sweep, admin>>
    BY <1>5 DEF AgesOut, StartFirstSeason, SeasonEnds, ChangeLinkedId, SaveCheckpoints, vars
  <2> QED BY <1>1, <2>1, BooksIdle
<1> QED BY <1>3, <1>4, <1>5

LEMMA BooksStep == TypeInv /\ BooksInv /\ [Next]_vars => BooksInv'
<1> SUFFICES ASSUME TypeInv, BooksInv, [Next]_vars PROVE BooksInv'
  OBVIOUS
<1>1. RowsOK /\ JobsOK /\ HoldsOK
  BY RowsOfTypes DEF TypeInv
<1>2. ASSUME NEW k \in Sweeps, SweepStep(k) \/ SweepFails(k) PROVE BooksInv'
  BY <1>1, <1>2, FindEventsBooks, ApplyDecisionBooks, PlaceRewardBooks, GrantRewardBooks,
     OtherBooks DEF SweepStep, RunLevelPassSync, RunRewardDelivery, RunSeasonClose
<1>3. ASSUME NEW a \in Admins, ReverseOrder(a) \/ OverrideLp(a) PROVE BooksInv'
  BY <1>1, <1>3, ReverseReadsBooks, ReverseWritesBooks, OverrideWritesBooks, OtherBooks
     DEF ReverseOrder, OverrideLp
<1>4. CASE Outside \/ UNCHANGED vars
  BY <1>1, <1>4, CompleteBooks, OtherBooks DEF Outside
<1> QED BY <1>2, <1>3, <1>4 DEF Next, Outside

(* Every reward is delivered by one order at most and booked once, when it *)
(* is granted; every refund is booked once; and a reversed transaction has *)
(* a refund behind it. For any number of sweeps and of admins.             *)
THEOREM LevelPassBooked == Spec => [](RewardsAreBooked /\ RefundsAreBooked)
<1>1. Spec => [](TypeInv /\ BooksInv)
  BY TypesInit, TypesStep, BooksInit, BooksStep, PTL DEF Spec
<1>2. TypeInv /\ BooksInv => RewardsAreBooked /\ RefundsAreBooked
  BY DEF BooksInv
<1> QED BY <1>1, <1>2, PTL

(* The report of a season pays for exactly the rewards the ledger was      *)
(* charged with, and so do the pages of its customers.                     *)
THEOREM LevelPassReports == Spec => []RewardsAreReported
<1>1. RewardsAreBooked /\ RefundsAreBooked => RewardsAreReported
  <2> SUFFICES ASSUME RewardsAreBooked PROVE RewardsAreReported
    OBVIOUS
  <2>1. \A e \in Events : ledger.expenses[e] # 0 <=> event[e].status = "granted"
    BY DEF RewardsAreBooked
  <2>2. \A s \in Seasons : SeasonRewards(s)
           = { e \in Events : e[1] = s /\ event[e].status = "granted" }
    BY DEF SeasonRewards
  <2>3. \A s \in Seasons, p \in Profiles :
          CustomerRewards(s, p) = { c \in Thresholds : event[<<s, p, c>>].status = "granted" }
    BY DEF CustomerRewards
  <2>4. \A s \in Seasons, p \in Profiles, c \in Thresholds : <<s, p, c>> \in Events
    BY DEF Events
  <2> QED BY <2>1, <2>2, <2>3, <2>4 DEF RewardsAreReported
<1> QED BY <1>1, LevelPassBooked, PTL

------------------------------------------------------------------------------
(* The past.                                                               *)

\* With one sweep, a season that was read is still the active one.
SeasonInv ==
  \A k \in Sweeps : sweep[k].pc \in { "state", "apply" } =>
    current # 0 /\ sweep[k].season = current

LEMMA SeasonStep ==
  ASSUME \A k, l \in Sweeps : k = l, RowsOK, JobsOK, SeasonInv, [Next]_vars
  PROVE  SeasonInv'
<1>1. CASE UNCHANGED <<sweep, current>>
  BY <1>1 DEF SeasonInv
<1>2. ASSUME NEW k \in Sweeps, NEW job,
             sweep' = [sweep EXCEPT ![k] = job], UNCHANGED current,
             job.pc \in { "state", "apply" } => current # 0 /\ job.season = current
      PROVE  SeasonInv'
  BY <1>2 DEF SeasonInv, JobsOK
<1>3. \A todo \in SUBSET Paid : \A o : OnTo(todo, o).pc \notin { "state", "apply" }
  BY OnToTypes
<1>4. ASSUME NEW k \in Sweeps, SweepStep(k) \/ SweepFails(k) PROVE SeasonInv'
  <2>1. CASE FindUnprocessed(k)
    <3>1. PICK batch : Goes(k, [ pc |-> "order", todo |-> batch ])
      BY <2>1 DEF FindUnprocessed
    <3> QED BY <2>1, <3>1, <1>2 DEF FindUnprocessed, Goes, calendar
  <2>2. CASE FindSeason(k)
    <3>1. sweep[k].todo \in SUBSET Paid /\ UNCHANGED current
      BY <2>2, SweepHolds DEF FindSeason, calendar
    <3>2. \/ \E o : Goes(k, OnTo(sweep[k].todo, o))
          \/ \E o : /\ current # 0
                    /\ Goes(k, [ pc |-> "state", todo |-> sweep[k].todo, order |-> o,
                                 season |-> current ])
      BY <2>2 DEF FindSeason
    <3> QED BY <3>1, <3>2, <1>2, <1>3 DEF Goes
  <2>3. CASE ReadPlayer(k)
    <3>1. sweep[k].todo \in SUBSET Paid /\ UNCHANGED current
      BY <2>3, SweepHolds DEF ReadPlayer, calendar
    <3>2. \/ Goes(k, OnTo(sweep[k].todo, sweep[k].order))
          \/ \E p, d : Goes(k, [ pc |-> "apply", todo |-> sweep[k].todo,
                                 order |-> sweep[k].order, season |-> sweep[k].season,
                                 profile |-> p, decision |-> d ])
      BY <2>3 DEF ReadPlayer
    <3>3. current # 0 /\ sweep[k].season = current
      BY <2>3 DEF ReadPlayer, SeasonInv
    <3> QED BY <3>1, <3>2, <3>3, <1>2, <1>3 DEF Goes
  <2>4. CASE ApplyDecision(k)
    <3>1. sweep[k].todo \in SUBSET Paid
      BY <2>4, SweepHolds DEF ApplyDecision
    <3> QED BY <2>4, <3>1, <1>2, <1>3 DEF ApplyDecision, Goes, calendar
  <2>5. CASE FindGrantable(k)
    <3>1. PICK batch : Goes(k, [ pc |-> "place", todo |-> batch, recipes |-> Recipes ])
      BY <2>5 DEF FindGrantable
    <3> QED BY <2>5, <3>1, <1>2 DEF FindGrantable, Goes, calendar
  <2>6. CASE FindDelivered(k)
    <3>1. PICK batch : Goes(k, [ pc |-> "grant", todo |-> batch ])
      BY <2>6 DEF FindDelivered
    <3> QED BY <2>6, <3>1, <1>2 DEF FindDelivered, Goes, calendar
  <2>7. CASE PlaceReward(k) \/ GrantReward(k)
    <3>1. PICK e : Goes(k, AfterEvent(sweep[k], e))
      BY <2>7 DEF PlaceReward, GrantReward
    <3>2. AfterEvent(sweep[k], e).pc \notin { "state", "apply" }
      BY <2>7, SweepHolds, AfterEventTypes DEF PlaceReward, GrantReward
    <3> QED BY <2>7, <3>1, <3>2, <1>2 DEF PlaceReward, GrantReward, Goes, calendar
  <2>8. CASE FindDue(k)
    <3>1. PICK first, others :
             Goes(k, [ pc |-> "close", season |-> current, first |-> first,
                       others |-> others ])
      BY <2>8 DEF FindDue
    <3> QED BY <2>8, <3>1, <1>2 DEF FindDue, Goes, calendar
  <2>9. CASE CloseSeason(k)
    <3>1. \A l \in Sweeps : sweep'[l].pc = "idle"
      BY <2>9, IdleIsAJob DEF CloseSeason, Goes, JobsOK
    <3> QED BY <3>1 DEF SeasonInv
  <2>10. CASE SweepFails(k)
    BY <2>10, <1>2, IdleIsAJob DEF SweepFails, Goes, calendar
  <2> QED BY <1>4, <2>1, <2>2, <2>3, <2>4, <2>5, <2>6, <2>7, <2>8, <2>9, <2>10
          DEF SweepStep, RunLevelPassSync, RunRewardDelivery, RunSeasonClose
<1>5. CASE StartFirstSeason
  BY <1>5 DEF StartFirstSeason, SeasonInv
<1>6. ASSUME NEW a \in Admins, ReverseOrder(a) \/ OverrideLp(a)
      PROVE  UNCHANGED <<sweep, current>>
  BY <1>6 DEF ReverseOrder, OverrideLp, ReverseReads, ReverseWrites, OverrideReads,
              OverrideWrites, calendar
<1>7. CASE Outside \/ UNCHANGED vars
  <2>1. UNCHANGED <<sweep, current>> \/ StartFirstSeason
    BY <1>7 DEF Outside, Complete, AgesOut, SeasonEnds, ChangeLinkedId, SaveCheckpoints, vars,
                calendar
  <2> QED BY <1>1, <1>5, <2>1
<1> QED BY <1>1, <1>4, <1>6, <1>7 DEF Next, Outside

\* What was granted stays granted, whoever writes.
LEMMA GrantsStay ==
  ASSUME RowsOK, JobsOK, [Next]_vars, NEW e \in Events, event[e].status = "granted"
  PROVE  event'[e].status = "granted"
<1>1. CASE UNCHANGED event
  BY <1>1
<1>2. ASSUME NEW k \in Sweeps, ApplyDecision(k) PROVE event'[e].status = "granted"
  <2> DEFINE j == sweep[k]
             new == { c \in j.decision.crossed :
                        event[<<j.season, j.profile, c>>].status = "none" }
  <2>1. \/ UNCHANGED event
        \/ event' = [d \in Events |->
             IF d[1] = j.season /\ d[2] = j.profile /\ d[3] \in new
             THEN [ status |-> "pending", linked |-> FALSE ] ELSE event[d]]
    BY <1>2 DEF ApplyDecision
  <2>2. ~(e[1] = j.season /\ e[2] = j.profile /\ e[3] \in new)
    <3>1. e = <<e[1], e[2], e[3]>>
      BY DEF Events
    <3> QED BY <3>1
  <2> HIDE DEF new
  <2> QED BY <2>1, <2>2
<1>3. ASSUME NEW k \in Sweeps, PlaceReward(k) \/ GrantReward(k)
      PROVE  event'[e].status = "granted"
  <2>1. \/ UNCHANGED event
        \/ \E d : \/ event' = [event EXCEPT ![d].linked = TRUE]
                  \/ event' = [event EXCEPT ![d].status = "granted"]
    BY <1>3 DEF PlaceReward, CreateRewardOrder, GrantReward, Grant
  <2>2. event[e] \in EventRow
    BY DEF RowsOK
  <2> QED BY <2>1, <2>2 DEF RowsOK, EventRow
<1>4. ASSUME NEW a \in Admins, ReverseWrites(a) PROVE event'[e].status = "granted"
  BY <1>4 DEF ReverseWrites, Revoke
<1>5. ASSUME NEW a \in Admins, OverrideWrites(a) PROVE event'[e].status = "granted"
  BY <1>5, OverrideWritesEvents
<1>6. \/ UNCHANGED event
      \/ \E k \in Sweeps : ApplyDecision(k) \/ PlaceReward(k) \/ GrantReward(k)
      \/ \E a \in Admins : ReverseWrites(a) \/ OverrideWrites(a)
  BY DEF Next, vars, rewards, Complete, AgesOut, SweepStep, RunLevelPassSync,
         RunRewardDelivery, RunSeasonClose, FindUnprocessed, FindSeason, ReadPlayer,
         FindGrantable, FindDelivered, FindDue, CloseSeason, SweepFails, ReverseOrder,
         ReverseReads, OverrideReads, OverrideLp, StartFirstSeason, SeasonEnds,
         ChangeLinkedId, SaveCheckpoints
<1> QED BY <1>1, <1>2, <1>3, <1>4, <1>5, <1>6

\* Only applyDecision inserts a transaction, with the season it holds.
LEMMA CreditsAreCurrent ==
  ASSUME RowsOK, JobsOK, HoldsOK, SeasonInv, [Next]_vars,
         NEW o \in Orders, lpTx[o] = NoTx, lpTx'[o] # NoTx
  PROVE  lpTx'[o].season = current
<1>1. NoTx \notin TxRow
  BY LevelPassAssumption DEF NoTx, TxRow
<1>2. ASSUME NEW k \in Sweeps, ApplyDecision(k) PROVE lpTx'[o].season = current
  <2>1. \/ UNCHANGED lpTx
        \/ \E row : row.season = sweep[k].season /\ lpTx' = [lpTx EXCEPT ![sweep[k].order] = row]
    BY <1>2 DEF ApplyDecision, progress
  <2>2. sweep[k].season = current
    BY <1>2 DEF ApplyDecision, SeasonInv
  <2> QED BY <2>1, <2>2 DEF RowsOK
<1>3. ASSUME NEW a \in Admins, ReverseWrites(a) PROVE FALSE
  <2>1. \/ UNCHANGED lpTx
        \/ /\ admin[a].tx # NoTx
           /\ lpTx' = [lpTx EXCEPT ![admin[a].order].reversed = TRUE]
    BY <1>3 DEF ReverseWrites, progress
  <2>2. admin[a].tx # NoTx => admin[a].order # o
    BY <1>1, <1>3 DEF ReverseWrites, HoldsOK
  <2> QED BY <2>1, <2>2 DEF RowsOK
<1>4. ASSUME NEW a \in Admins, OverrideWrites(a) PROVE FALSE
  <2>1. lpTx' = [lpTx EXCEPT ![admin[a].order].awarded = admin[a].awarded]
    BY <1>4 DEF OverrideWrites
  <2>2. admin[a].order # o
    BY <1>1, <1>4 DEF OverrideWrites, HoldsOK
  <2> QED BY <2>1, <2>2 DEF RowsOK
<1>5. \/ UNCHANGED lpTx
      \/ \E k \in Sweeps : ApplyDecision(k)
      \/ \E a \in Admins : ReverseWrites(a) \/ OverrideWrites(a)
  BY DEF Next, vars, progress, Complete, AgesOut, SweepStep, RunLevelPassSync,
         RunRewardDelivery, RunSeasonClose, FindUnprocessed, FindSeason, ReadPlayer,
         FindGrantable, PlaceReward, FindDelivered, GrantReward, FindDue, CloseSeason,
         SweepFails, ReverseOrder, ReverseReads, OverrideReads, OverrideLp, StartFirstSeason,
         SeasonEnds, ChangeLinkedId, SaveCheckpoints
<1> QED BY <1>2, <1>3, <1>4, <1>5

(* What was granted stays granted for any number of sweeps and admins, and *)
(* with one sweep nobody is credited in a season that is over.             *)
THEOREM LevelPassPast ==
  ASSUME \A k, l \in Sweeps : k = l
  PROVE  Spec => PastIsFinal
<1> DEFINE Final == /\ \A e \in Events : event[e].status = "granted" => event'[e].status = "granted"
                    /\ \A o \in Orders : lpTx[o] = NoTx /\ lpTx'[o] # NoTx
                                           => lpTx'[o].season = current
<1>1. Init => SeasonInv
  BY IdleIsAJob DEF Init, SeasonInv
<1>2. TypeInv /\ SeasonInv /\ [Next]_vars => SeasonInv'
  BY SeasonStep, RowsOfTypes DEF TypeInv
<1>3. TypeInv /\ SeasonInv /\ [Next]_vars => [Final]_vars
  BY GrantsStay, CreditsAreCurrent, RowsOfTypes DEF TypeInv
<1>4. Spec => [](TypeInv /\ SeasonInv)
  BY <1>1, <1>2, TypesInit, TypesStep, PTL DEF Spec
<1> HIDE DEF Final
<1>5. Spec => [][Final]_vars
  BY <1>3, <1>4, PTL DEF Spec
<1> QED BY <1>5 DEF PastIsFinal, Final

------------------------------------------------------------------------------
(* The counters.                                                           *)

\* The transactions on record are of orders customers paid for, and however
\* many there are, they are finitely many.
Recorded == { o \in Orders : lpTx[o] # NoTx }
RecordsInv == IsFiniteSet(Recorded) /\ Recorded \subseteq Paid

LEMMA ColumnTypes ==
  ASSUME RowsOK, NEW field \in { "diamonds", "ranking", "awarded" }
  PROVE  \A o \in Orders : Column(field)[o] \in Nat
BY DEF Column, RowsOK, TxRow, NoTx

LEMMA CountedTypes ==
  ASSUME RowsOK, RecordsInv, NEW p \in Profiles
  PROVE  /\ IsFiniteSet(Counted(p)) /\ Counted(p) \subseteq Paid
         /\ \A s : IsFiniteSet(CountedIn(s, p))
<1>1. Counted(p) \subseteq Recorded
  BY LevelPassAssumption DEF Counted, Recorded, NoTx
<1>2. \A s : CountedIn(s, p) \subseteq Recorded
  BY <1>1 DEF CountedIn
<1> QED BY <1>1, <1>2, FS_Subset DEF RecordsInv

\* A row is put, and the columns get its cells.
LEMMA ColumnsMove ==
  ASSUME RowsOK, NEW o \in Orders, NEW row, lpTx' = [lpTx EXCEPT ![o] = row],
         NEW field \in { "diamonds", "ranking", "awarded" }
  PROVE  /\ \A q \in Orders \ {o} : lpTx'[q] = lpTx[q] /\ Column(field)'[q] = Column(field)[q]
         /\ lpTx'[o] = row /\ Column(field)'[o] = row[field]
BY DEF RowsOK, Column

\* A credited order counts for its profile and season from then on; a
\* reversed one does no more; and one whose points change counts as before.
LEMMA CreditCounts ==
  ASSUME RowsOK, NEW o \in Orders \ Recorded, NEW row \in TxRow, ~row.reversed,
         lpTx' = [lpTx EXCEPT ![o] = row], NEW p \in Profiles
  PROVE  /\ o \notin Counted(p)
         /\ Counted(p)' = IF p = row.profile THEN Counted(p) \cup {o} ELSE Counted(p)
         /\ \A s \in Seasons : CountedIn(s, p)' =
              IF s = row.season /\ p = row.profile THEN CountedIn(s, p) \cup {o}
              ELSE CountedIn(s, p)
<1>1. lpTx'[o] = row /\ \A q \in Orders \ {o} : lpTx'[q] = lpTx[q]
  BY DEF RowsOK
<1>2. lpTx[o] = NoTx /\ NoTx.profile # p
  BY LevelPassAssumption DEF Recorded, NoTx
<1>3. o \notin Counted(p)
  BY <1>2 DEF Counted
<1>4. Counted(p)' = IF p = row.profile THEN Counted(p) \cup {o} ELSE Counted(p)
  BY <1>1, <1>3 DEF Counted
<1>5. \A s \in Seasons : CountedIn(s, p)' =
        IF s = row.season /\ p = row.profile THEN CountedIn(s, p) \cup {o}
        ELSE CountedIn(s, p)
  BY <1>1, <1>3, <1>4 DEF CountedIn, Counted
<1> QED BY <1>3, <1>4, <1>5

LEMMA ReversalCounts ==
  ASSUME RowsOK, NEW o \in Orders, ~lpTx[o].reversed, NEW row, row.reversed,
         lpTx' = [lpTx EXCEPT ![o] = row], NEW p \in Profiles
  PROVE  /\ o \in Counted(p) <=> p = lpTx[o].profile
         /\ Counted(p)' = IF p = lpTx[o].profile THEN Counted(p) \ {o} ELSE Counted(p)
         /\ \A s \in Seasons :
              /\ o \in CountedIn(s, p) <=> s = lpTx[o].season /\ p = lpTx[o].profile
              /\ CountedIn(s, p)' =
                   IF s = lpTx[o].season /\ p = lpTx[o].profile THEN CountedIn(s, p) \ {o}
                   ELSE CountedIn(s, p)
<1>1. lpTx'[o] = row /\ \A q \in Orders \ {o} : lpTx'[q] = lpTx[q]
  BY DEF RowsOK
<1>2. o \in Counted(p) <=> p = lpTx[o].profile
  BY DEF Counted
<1>3. Counted(p)' = IF p = lpTx[o].profile THEN Counted(p) \ {o} ELSE Counted(p)
  BY <1>1 DEF Counted
<1>4. ASSUME NEW s \in Seasons
      PROVE  /\ o \in CountedIn(s, p) <=> s = lpTx[o].season /\ p = lpTx[o].profile
             /\ CountedIn(s, p)' =
                  IF s = lpTx[o].season /\ p = lpTx[o].profile THEN CountedIn(s, p) \ {o}
                  ELSE CountedIn(s, p)
  BY <1>1 DEF CountedIn, Counted
<1> QED BY <1>2, <1>3, <1>4

LEMMA OverrideCounts ==
  ASSUME RowsOK, NEW o \in Orders, NEW row, lpTx' = [lpTx EXCEPT ![o] = row],
         row.profile = lpTx[o].profile, row.season = lpTx[o].season,
         row.reversed = lpTx[o].reversed, NEW p \in Profiles
  PROVE  Counted(p)' = Counted(p) /\ \A s \in Seasons : CountedIn(s, p)' = CountedIn(s, p)
<1>1. lpTx'[o] = row /\ \A q \in Orders \ {o} : lpTx'[q] = lpTx[q]
  BY DEF RowsOK
<1> QED BY <1>1 DEF Counted, CountedIn

\* Who is credited, counts.
LEMMA CreditCounters ==
  ASSUME RowsOK, RecordsInv, NEW o \in Paid \ Recorded, NEW row \in TxRow, ~row.reversed,
         lpTx' = [lpTx EXCEPT ![o] = row],
         \A p \in Profiles :
           lifetime'[p] = IF p = row.profile
                          THEN [ diamonds |-> lifetime[p].diamonds + row.diamonds,
                                 recharges |-> lifetime[p].recharges + 1 ]
                          ELSE lifetime[p],
         \A s \in Seasons, p \in Profiles :
           stats'[s][p] = IF s = row.season /\ p = row.profile
                          THEN [ lp |-> stats[s][p].lp + row.awarded,
                                 diamonds |-> stats[s][p].diamonds + row.ranking ]
                          ELSE stats[s][p]
  PROVE  (CountersMatch => CountersMatch') /\ (PointsMatch => PointsMatch')
<1>1. o \in Orders \ Recorded /\ o \in Paid
  BY DEF Orders
<1>4. \A p \in Profiles :
        /\ o \notin Counted(p)
        /\ Counted(p)' = IF p = row.profile THEN Counted(p) \cup {o} ELSE Counted(p)
        /\ \A s \in Seasons : CountedIn(s, p)' =
             IF s = row.season /\ p = row.profile THEN CountedIn(s, p) \cup {o}
             ELSE CountedIn(s, p)
  BY <1>1, CreditCounts
<1>5. ASSUME NEW field \in { "diamonds", "ranking", "awarded" }, NEW S \in SUBSET Orders,
             IsFiniteSet(S), o \notin S
      PROVE  /\ SumFunctionOnSet(Column(field)', S \cup {o})
                  = SumFunctionOnSet(Column(field), S) + row[field]
             /\ SumFunctionOnSet(Column(field)', S) = SumFunctionOnSet(Column(field), S)
  <2>1. PICK f, g : f = Column(field) /\ g = Column(field)'
    OBVIOUS
  <2>2. g[o] = row[field]
    BY <1>1, <2>1 DEF Column, RowsOK
  <2>3. g[o] \in Int
    BY <2>2 DEF TxRow
  <2>4. \A q \in S : f[q] \in Int
    BY <2>1, ColumnTypes
  <2>5. \A q \in S : g[q] = f[q]
    BY <1>1, <1>5, <2>1, ColumnsMove DEF Column
  <2>6. PICK T : T = S \cup {o}
    OBVIOUS
  <2>7. o \in T /\ S = T \ {o}
    BY <1>5, <2>6
  <2>8. SumFunctionOnSet(g, T) = SumFunctionOnSet(f, S) + g[o]
    BY ONLY <1>5, <2>3, <2>4, <2>5, <2>7, SumGains
  <2>9. SumFunctionOnSet(g, S) = SumFunctionOnSet(f, S)
    BY <1>5, <2>5, SumsEqual
  <2> QED BY <2>1, <2>2, <2>6, <2>8, <2>9
<1>2. ASSUME CountersMatch, NEW p \in Profiles
      PROVE  /\ lifetime'[p].recharges = Cardinality(Counted(p)' \cap Paid)
             /\ lifetime'[p].diamonds
                  = SumFunctionOnSet(Column("diamonds")', Counted(p)' \cap Paid)
  <2> DEFINE S == Counted(p) \cap Paid
  <2>1. S \in SUBSET Orders /\ IsFiniteSet(S) /\ o \notin S
    BY <1>4, CountedTypes, FS_Subset DEF Orders
  <2>2. Counted(p)' \cap Paid = IF p = row.profile THEN S \cup {o} ELSE S
    BY <1>1, <1>4
  <2>3. Cardinality(S \cup {o}) = Cardinality(S) + 1
    BY <2>1, FS_AddElement
  <2>4. /\ SumFunctionOnSet(Column("diamonds")', S \cup {o})
             = SumFunctionOnSet(Column("diamonds"), S) + row.diamonds
        /\ SumFunctionOnSet(Column("diamonds")', S) = SumFunctionOnSet(Column("diamonds"), S)
    <3> HIDE DEF S
    <3> QED BY <1>5, <2>1
  <2>5. /\ lifetime[p].recharges = Cardinality(S)
        /\ lifetime[p].diamonds = SumFunctionOnSet(Column("diamonds"), S)
    BY <1>2 DEF CountersMatch
  <2> HIDE DEF S
  <2>6. CASE p = row.profile
    <3>1. /\ lifetime'[p].recharges = lifetime[p].recharges + 1
          /\ lifetime'[p].diamonds = lifetime[p].diamonds + row.diamonds
      <4>1. lifetime'[p] = [ diamonds |-> lifetime[p].diamonds + row.diamonds,
                             recharges |-> lifetime[p].recharges + 1 ]
        BY <2>6
      <4> QED BY ONLY <4>1
    <3> QED BY <2>2, <2>3, <2>4, <2>5, <2>6, <3>1
  <2>7. CASE p # row.profile
    BY <2>2, <2>4, <2>5, <2>7
  <2> QED BY <2>6, <2>7
<1>3. ASSUME NEW s \in Seasons, NEW p \in Profiles
      PROVE  /\ stats[s][p].diamonds = SumFunctionOnSet(Column("ranking"), CountedIn(s, p))
                  => stats'[s][p].diamonds
                       = SumFunctionOnSet(Column("ranking")', CountedIn(s, p)')
             /\ stats[s][p].lp = SumFunctionOnSet(Column("awarded"), CountedIn(s, p))
                  => stats'[s][p].lp = SumFunctionOnSet(Column("awarded")', CountedIn(s, p)')
  <2> DEFINE S == CountedIn(s, p)
  <2>1. S \in SUBSET Orders /\ IsFiniteSet(S) /\ o \notin S
    <3>1. S \subseteq Counted(p) /\ Counted(p) \subseteq Orders
      BY DEF CountedIn, Counted
    <3> QED BY <1>4, <3>1, CountedTypes
  <2>2. CountedIn(s, p)' = IF s = row.season /\ p = row.profile THEN S \cup {o} ELSE S
    BY <1>4
  <2> HIDE DEF S
  <2>4. /\ SumFunctionOnSet(Column("ranking")', S \cup {o})
             = SumFunctionOnSet(Column("ranking"), S) + row.ranking
        /\ SumFunctionOnSet(Column("ranking")', S) = SumFunctionOnSet(Column("ranking"), S)
        /\ SumFunctionOnSet(Column("awarded")', S \cup {o})
             = SumFunctionOnSet(Column("awarded"), S) + row.awarded
        /\ SumFunctionOnSet(Column("awarded")', S) = SumFunctionOnSet(Column("awarded"), S)
    BY <1>5, <2>1
  <2>5. CASE s = row.season /\ p = row.profile
    <3>1. /\ stats'[s][p].diamonds = stats[s][p].diamonds + row.ranking
          /\ stats'[s][p].lp = stats[s][p].lp + row.awarded
      <4>1. stats'[s][p] = [ lp |-> stats[s][p].lp + row.awarded,
                             diamonds |-> stats[s][p].diamonds + row.ranking ]
        BY <2>5
      <4> QED BY ONLY <4>1
    <3> QED BY <2>2, <2>4, <2>5, <3>1 DEF S
  <2>6. CASE ~(s = row.season /\ p = row.profile)
    BY <2>2, <2>4, <2>6 DEF S
  <2> QED BY <2>5, <2>6
<1> QED BY <1>2, <1>3 DEF CountersMatch, PointsMatch

\* Who is reversed, counts no more, and nothing is lost to the floor at zero.
LEMMA ReversalCounters ==
  ASSUME RowsOK, RecordsInv, NEW o \in Recorded, NEW lost,
         ~lpTx[o].reversed, lpTx' = [lpTx EXCEPT ![o].reversed = TRUE],
         \A p \in Profiles :
           lifetime'[p] = IF p = lpTx[o].profile
                          THEN [ diamonds |-> AtLeastZero(lifetime[p].diamonds - lpTx[o].diamonds),
                                 recharges |-> AtLeastZero(lifetime[p].recharges - 1) ]
                          ELSE lifetime[p],
         \A s \in Seasons, p \in Profiles :
           stats'[s][p] = IF s = lpTx[o].season /\ p = lpTx[o].profile
                          THEN [ lp |-> AtLeastZero(stats[s][p].lp - lost),
                                 diamonds |-> AtLeastZero(stats[s][p].diamonds - lpTx[o].ranking) ]
                          ELSE stats[s][p]
  PROVE  /\ CountersMatch => CountersMatch'
         /\ lost = lpTx[o].awarded /\ PointsMatch => PointsMatch'
<1>1. o \in Orders /\ o \in Paid /\ lpTx[o] \in TxRow
  BY DEF Recorded, RecordsInv, RowsOK
<1>2. PICK row : row = [lpTx[o] EXCEPT !.reversed = TRUE]
  OBVIOUS
<1>3. row.reversed /\ lpTx' = [lpTx EXCEPT ![o] = row]
  BY <1>1, <1>2 DEF RowsOK, TxRow
<1>4. \A p \in Profiles :
        /\ o \in Counted(p) <=> p = lpTx[o].profile
        /\ Counted(p)' = IF p = lpTx[o].profile THEN Counted(p) \ {o} ELSE Counted(p)
        /\ \A s \in Seasons :
             /\ o \in CountedIn(s, p) <=> s = lpTx[o].season /\ p = lpTx[o].profile
             /\ CountedIn(s, p)' =
                  IF s = lpTx[o].season /\ p = lpTx[o].profile THEN CountedIn(s, p) \ {o}
                  ELSE CountedIn(s, p)
  BY <1>1, <1>3, ReversalCounts
<1>5. ASSUME NEW field \in { "diamonds", "ranking", "awarded" }, NEW S \in SUBSET Orders,
             IsFiniteSet(S)
      PROVE  /\ o \in S => /\ SumFunctionOnSet(Column(field)', S \ {o})
                                = AtLeastZero(SumFunctionOnSet(Column(field), S) - lpTx[o][field])
             /\ o \notin S => SumFunctionOnSet(Column(field)', S)
                                = SumFunctionOnSet(Column(field), S)
  <2>1. PICK f, g : f = Column(field) /\ g = Column(field)'
    OBVIOUS
  <2>2. f[o] = lpTx[o][field]
    BY <1>1, <2>1 DEF Column
  <2>3. \A q \in S : f[q] \in Nat
    BY <2>1, ColumnTypes
  <2>4. \A q \in S \ {o} : g[q] = f[q]
    BY <1>1, <1>3, <2>1, ColumnsMove DEF Column
  <2>5. ASSUME o \in S
        PROVE  SumFunctionOnSet(g, S \ {o}) = AtLeastZero(SumFunctionOnSet(f, S) - f[o])
    <3>1. /\ SumFunctionOnSet(g, S \ {o}) = SumFunctionOnSet(f, S) - f[o]
          /\ f[o] <= SumFunctionOnSet(f, S) /\ SumFunctionOnSet(f, S) \in Nat
      BY ONLY <1>5, <2>3, <2>4, <2>5, SumLoses
    <3>2. f[o] \in Nat
      BY <2>3, <2>5
    <3> QED BY <3>1, <3>2 DEF AtLeastZero
  <2>6. ASSUME o \notin S PROVE SumFunctionOnSet(g, S) = SumFunctionOnSet(f, S)
    <3>1. \A q \in S : g[q] = f[q]
      BY <2>4, <2>6
    <3> QED BY <1>5, <3>1, SumsEqual
  <2> QED BY <2>1, <2>2, <2>5, <2>6
<1>6. ASSUME CountersMatch, NEW p \in Profiles
      PROVE  /\ lifetime'[p].recharges = Cardinality(Counted(p)' \cap Paid)
             /\ lifetime'[p].diamonds
                  = SumFunctionOnSet(Column("diamonds")', Counted(p)' \cap Paid)
  <2> DEFINE S == Counted(p) \cap Paid
  <2>1. S \in SUBSET Orders /\ IsFiniteSet(S) /\ (o \in S <=> p = lpTx[o].profile)
    BY <1>1, <1>4, CountedTypes, FS_Subset DEF Orders
  <2>2. Counted(p)' \cap Paid = IF p = lpTx[o].profile THEN S \ {o} ELSE S
    BY <1>4
  <2>3. o \in S => /\ Cardinality(S \ {o}) = Cardinality(S) - 1
                   /\ Cardinality(S) \in Nat /\ Cardinality(S) # 0
    BY <2>1, FS_RemoveElement, FS_CardinalityType, FS_EmptySet
  <2>4. /\ o \in S => SumFunctionOnSet(Column("diamonds")', S \ {o})
                        = AtLeastZero(SumFunctionOnSet(Column("diamonds"), S) - lpTx[o].diamonds)
        /\ o \notin S => SumFunctionOnSet(Column("diamonds")', S)
                        = SumFunctionOnSet(Column("diamonds"), S)
    <3> HIDE DEF S
    <3> QED BY <1>5, <2>1
  <2>5. /\ lifetime[p].recharges = Cardinality(S)
        /\ lifetime[p].diamonds = SumFunctionOnSet(Column("diamonds"), S)
    BY <1>6 DEF CountersMatch
  <2> HIDE DEF S
  <2>6. CASE p = lpTx[o].profile
    <3>1. /\ lifetime'[p].recharges = AtLeastZero(lifetime[p].recharges - 1)
          /\ lifetime'[p].diamonds = AtLeastZero(lifetime[p].diamonds - lpTx[o].diamonds)
      <4>1. lifetime'[p] = [ diamonds |-> AtLeastZero(lifetime[p].diamonds - lpTx[o].diamonds),
                             recharges |-> AtLeastZero(lifetime[p].recharges - 1) ]
        BY <2>6
      <4> QED BY ONLY <4>1
    <3>2. AtLeastZero(lifetime[p].recharges - 1) = Cardinality(S \ {o})
      BY <2>1, <2>3, <2>5, <2>6 DEF AtLeastZero
    <3> QED BY <2>1, <2>2, <2>4, <2>5, <2>6, <3>1, <3>2
  <2>7. CASE p # lpTx[o].profile
    BY <2>1, <2>2, <2>4, <2>5, <2>7
  <2> QED BY <2>6, <2>7
<1>7. ASSUME NEW s \in Seasons, NEW p \in Profiles
      PROVE  /\ stats[s][p].diamonds = SumFunctionOnSet(Column("ranking"), CountedIn(s, p))
                  => stats'[s][p].diamonds
                       = SumFunctionOnSet(Column("ranking")', CountedIn(s, p)')
             /\ (/\ stats[s][p].lp = SumFunctionOnSet(Column("awarded"), CountedIn(s, p))
                 /\ lost = lpTx[o].awarded)
                  => stats'[s][p].lp = SumFunctionOnSet(Column("awarded")', CountedIn(s, p)')
  <2> DEFINE S == CountedIn(s, p)
  <2>1. /\ S \in SUBSET Orders /\ IsFiniteSet(S)
        /\ o \in S <=> s = lpTx[o].season /\ p = lpTx[o].profile
    <3>1. S \subseteq Counted(p) /\ Counted(p) \subseteq Orders
      BY DEF CountedIn, Counted
    <3> QED BY <1>4, <3>1, CountedTypes
  <2>2. CountedIn(s, p)' = IF s = lpTx[o].season /\ p = lpTx[o].profile THEN S \ {o} ELSE S
    BY <1>4
  <2> HIDE DEF S
  <2>3. /\ o \in S =>
             /\ SumFunctionOnSet(Column("ranking")', S \ {o})
                  = AtLeastZero(SumFunctionOnSet(Column("ranking"), S) - lpTx[o].ranking)
             /\ SumFunctionOnSet(Column("awarded")', S \ {o})
                  = AtLeastZero(SumFunctionOnSet(Column("awarded"), S) - lpTx[o].awarded)
        /\ o \notin S =>
             /\ SumFunctionOnSet(Column("ranking")', S) = SumFunctionOnSet(Column("ranking"), S)
             /\ SumFunctionOnSet(Column("awarded")', S) = SumFunctionOnSet(Column("awarded"), S)
    BY <1>5, <2>1
  <2>4. CASE s = lpTx[o].season /\ p = lpTx[o].profile
    <3>1. /\ stats'[s][p].diamonds = AtLeastZero(stats[s][p].diamonds - lpTx[o].ranking)
          /\ stats'[s][p].lp = AtLeastZero(stats[s][p].lp - lost)
      <4>1. stats'[s][p] = [ lp |-> AtLeastZero(stats[s][p].lp - lost),
                             diamonds |-> AtLeastZero(stats[s][p].diamonds - lpTx[o].ranking) ]
        BY <2>4
      <4> QED BY ONLY <4>1
    <3>2. CountedIn(s, p)' = S \ {o} /\ o \in S
      BY <2>1, <2>2, <2>4
    <3> QED BY <2>3, <3>1, <3>2 DEF S
  <2>5. CASE ~(s = lpTx[o].season /\ p = lpTx[o].profile)
    <3>1. CountedIn(s, p)' = S /\ o \notin S /\ stats'[s][p] = stats[s][p]
      BY <2>1, <2>2, <2>5
    <3> QED BY <2>3, <3>1 DEF S
  <2> QED BY <2>4, <2>5
<1> QED BY <1>6, <1>7 DEF CountersMatch, PointsMatch

\* Whose points change, counts for as much as before and has the new points,
\* which the floor at zero does not touch.
LEMMA OverrideCounters ==
  ASSUME RowsOK, RecordsInv, NEW o \in Recorded, NEW n \in Nat, NEW delta \in Int,
         lpTx' = [lpTx EXCEPT ![o].awarded = n], UNCHANGED lifetime,
         \A s \in Seasons, p \in Profiles :
           stats'[s][p] = IF s = lpTx[o].season /\ p = lpTx[o].profile
                          THEN [ lp |-> AtLeastZero(stats[s][p].lp + delta),
                                 diamonds |-> stats[s][p].diamonds ]
                          ELSE stats[s][p]
  PROVE  /\ CountersMatch => CountersMatch'
         /\ (~lpTx[o].reversed /\ delta = n - lpTx[o].awarded /\ PointsMatch) => PointsMatch'
<1>1. o \in Orders /\ o \in Paid /\ lpTx[o] \in TxRow
  BY DEF Recorded, RecordsInv, RowsOK
<1>2. PICK row : row = [lpTx[o] EXCEPT !.awarded = n]
  OBVIOUS
<1>3. /\ row.profile = lpTx[o].profile /\ row.season = lpTx[o].season
      /\ row.reversed = lpTx[o].reversed /\ row.diamonds = lpTx[o].diamonds
      /\ row.ranking = lpTx[o].ranking /\ row.awarded = n
      /\ lpTx' = [lpTx EXCEPT ![o] = row]
  BY <1>1, <1>2 DEF RowsOK, TxRow
<1>4. \A p \in Profiles :
        Counted(p)' = Counted(p) /\ \A s \in Seasons : CountedIn(s, p)' = CountedIn(s, p)
  BY <1>1, <1>3, OverrideCounts
<1>5. ASSUME NEW field \in { "diamonds", "ranking" }, NEW S \in SUBSET Orders, IsFiniteSet(S)
      PROVE  SumFunctionOnSet(Column(field)', S) = SumFunctionOnSet(Column(field), S)
  <2>1. PICK f, g : f = Column(field) /\ g = Column(field)'
    OBVIOUS
  <2>2. g[o] = f[o]
    BY <1>1, <1>3, <2>1 DEF Column, RowsOK
  <2>3. \A q \in S \ {o} : g[q] = f[q]
    BY <1>1, <1>3, <2>1, ColumnsMove DEF Column
  <2>4. \A q \in S : g[q] = f[q]
    BY <2>2, <2>3
  <2> QED BY <1>5, <2>1, <2>4, SumsEqual
<1>6. ASSUME NEW S \in SUBSET Orders, IsFiniteSet(S)
      PROVE  /\ o \in S => SumFunctionOnSet(Column("awarded")', S)
                             = AtLeastZero(SumFunctionOnSet(Column("awarded"), S)
                                             + (n - lpTx[o].awarded))
             /\ o \notin S => SumFunctionOnSet(Column("awarded")', S)
                                = SumFunctionOnSet(Column("awarded"), S)
  <2>1. PICK f, g : f = Column("awarded") /\ g = Column("awarded")'
    OBVIOUS
  <2>2. f[o] = lpTx[o].awarded /\ g[o] = n
    BY <1>1, <1>3, <2>1 DEF Column, RowsOK
  <2>3. \A q \in S : f[q] \in Nat
    BY <2>1, ColumnTypes
  <2>4. \A q \in S \ {o} : g[q] = f[q]
    BY <1>1, <1>3, <2>1, ColumnsMove DEF Column
  <2>5. ASSUME o \in S
        PROVE  SumFunctionOnSet(g, S) = AtLeastZero(SumFunctionOnSet(f, S) + (n - f[o]))
    <3>1. \A q \in S : f[q] \in Int /\ g[q] \in Int
      BY <2>2, <2>3, <2>4
    <3>2. \A q \in S \ {o} : f[q] = g[q]
      BY <2>4
    <3>3. SumFunctionOnSet(g, S) = (SumFunctionOnSet(f, S) - f[o]) + g[o]
      BY ONLY <1>6, <2>5, <3>1, <3>2, SumMoves
    <3>4. f[o] <= SumFunctionOnSet(f, S) /\ SumFunctionOnSet(f, S) \in Nat
      BY ONLY <1>6, <2>3, <2>4, <2>5, SumLoses
    <3>5. f[o] \in Nat
      BY <2>3, <2>5
    <3> QED BY <2>2, <3>3, <3>4, <3>5 DEF AtLeastZero
  <2>6. ASSUME o \notin S PROVE SumFunctionOnSet(g, S) = SumFunctionOnSet(f, S)
    <3>1. \A q \in S : g[q] = f[q]
      BY <2>4, <2>6
    <3> QED BY <1>6, <3>1, SumsEqual
  <2> QED BY <2>1, <2>2, <2>5, <2>6
<1>7. ASSUME CountersMatch, NEW p \in Profiles
      PROVE  /\ lifetime'[p].recharges = Cardinality(Counted(p)' \cap Paid)
             /\ lifetime'[p].diamonds
                  = SumFunctionOnSet(Column("diamonds")', Counted(p)' \cap Paid)
  <2>1. PICK S : S = Counted(p) \cap Paid
    OBVIOUS
  <2>2. S \in SUBSET Orders /\ IsFiniteSet(S) /\ Counted(p)' \cap Paid = S
    BY <1>4, <2>1, CountedTypes, FS_Subset DEF Orders
  <2>3. SumFunctionOnSet(Column("diamonds")', S) = SumFunctionOnSet(Column("diamonds"), S)
    BY <1>5, <2>2
  <2>4. /\ lifetime[p].recharges = Cardinality(S)
        /\ lifetime[p].diamonds = SumFunctionOnSet(Column("diamonds"), S)
    BY <1>7, <2>1 DEF CountersMatch
  <2> QED BY <2>2, <2>3, <2>4
<1>8. ASSUME NEW s \in Seasons, NEW p \in Profiles
      PROVE  /\ stats[s][p].diamonds = SumFunctionOnSet(Column("ranking"), CountedIn(s, p))
                  => stats'[s][p].diamonds
                       = SumFunctionOnSet(Column("ranking")', CountedIn(s, p)')
             /\ (/\ ~lpTx[o].reversed /\ delta = n - lpTx[o].awarded
                 /\ stats[s][p].lp = SumFunctionOnSet(Column("awarded"), CountedIn(s, p)))
                  => stats'[s][p].lp = SumFunctionOnSet(Column("awarded")', CountedIn(s, p)')
  <2>1. PICK S : S = CountedIn(s, p)
    OBVIOUS
  <2>2. /\ S \in SUBSET Orders /\ IsFiniteSet(S) /\ CountedIn(s, p)' = S
        /\ ~lpTx[o].reversed => (o \in S <=> s = lpTx[o].season /\ p = lpTx[o].profile)
    <3>1. S \subseteq Counted(p) /\ Counted(p) \subseteq Orders
      BY <2>1 DEF CountedIn, Counted
    <3>2. ~lpTx[o].reversed => (o \in S <=> s = lpTx[o].season /\ p = lpTx[o].profile)
      BY <1>1, <2>1 DEF CountedIn, Counted
    <3> QED BY <1>4, <2>1, <3>1, <3>2, CountedTypes
  <2>3. /\ SumFunctionOnSet(Column("ranking")', S) = SumFunctionOnSet(Column("ranking"), S)
        /\ o \in S => SumFunctionOnSet(Column("awarded")', S)
                        = AtLeastZero(SumFunctionOnSet(Column("awarded"), S)
                                        + (n - lpTx[o].awarded))
        /\ o \notin S => SumFunctionOnSet(Column("awarded")', S)
                           = SumFunctionOnSet(Column("awarded"), S)
    BY <1>5, <1>6, <2>2
  <2>4. CASE s = lpTx[o].season /\ p = lpTx[o].profile
    <3>1. /\ stats'[s][p].diamonds = stats[s][p].diamonds
          /\ stats'[s][p].lp = AtLeastZero(stats[s][p].lp + delta)
      <4>1. stats'[s][p] = [ lp |-> AtLeastZero(stats[s][p].lp + delta),
                             diamonds |-> stats[s][p].diamonds ]
        BY <2>4
      <4> QED BY ONLY <4>1
    <3> QED BY <2>1, <2>2, <2>3, <2>4, <3>1
  <2>5. CASE ~(s = lpTx[o].season /\ p = lpTx[o].profile)
    <3>1. stats'[s][p] = stats[s][p]
      BY <2>5
    <3> QED BY <2>1, <2>2, <2>3, <2>5, <3>1
  <2> QED BY <2>4, <2>5
<1>9. CountersMatch => CountersMatch'
  BY <1>7, <1>8, ZenonT(30) DEF CountersMatch
<1>10. ASSUME ~lpTx[o].reversed, delta = n - lpTx[o].awarded, PointsMatch PROVE PointsMatch'
  BY <1>8, <1>10 DEF PointsMatch
<1> QED BY <1>9, <1>10

------------------------------------------------------------------------------
(* The counters, kept.                                                     *)

\* An admin at work on a credited order.
AtWork(a) == admin[a].pc = "override" \/ (admin[a].pc = "reverse" /\ admin[a].tx # NoTx)

\* All that an override leaves as it is.
SameSale(t, u) ==
  /\ t.season = u.season /\ t.profile = u.profile
  /\ t.diamonds = u.diamonds /\ t.ranking = u.ranking

\* What an admin holds of a transaction is true of it, but for its points;
\* and of those who refund an order nobody finds it refunded.
HeldInv ==
  \A a \in Admins : AtWork(a) =>
    /\ SameSale(admin[a].tx, lpTx[admin[a].order])
    /\ admin[a].pc = "reverse" => ~lpTx[admin[a].order].reversed

\* As long as admins work on orders of their own, the points are, too.
OrdersApart ==
  \A a, b \in Admins :
    /\ admin[a].pc # "idle" /\ admin[b].pc # "idle" /\ admin[a].order = admin[b].order
    => a = b
HeldExactly ==
  \A a \in Admins : AtWork(a) =>
    /\ admin[a].tx = lpTx[admin[a].order] /\ ~lpTx[admin[a].order].reversed
    /\ admin[a].pc = "override" => admin[a].plan.delta = admin[a].awarded - admin[a].tx.awarded

CountersInv == RecordsInv /\ HeldInv /\ CountersMatch
PointsInv == HeldExactly /\ PointsMatch

LEMMA RecordedRows == RowsOK => Recorded = { o \in Orders : lpTx[o] \in TxRow }
<1>1. NoTx \notin TxRow
  BY LevelPassAssumption DEF NoTx, TxRow
<1> QED BY <1>1 DEF RowsOK, Recorded

\* The steps that write the counters or the rows behind them, and those at
\* which an admin begins.
LEMMA CounterSteps ==
  ASSUME [Next]_vars
  PROVE  \/ UNCHANGED <<progress, admin>>
         \/ \E k \in Sweeps : ApplyDecision(k)
         \/ \E a \in Admins, o \in Orders : ReverseReads(a, o)
         \/ \E a \in Admins, o \in Orders, lp \in OverrideValues : OverrideReads(a, o, lp)
         \/ \E a \in Admins : ReverseWrites(a) \/ OverrideWrites(a)
BY DEF Next, vars, progress, Complete, AgesOut, SweepStep, RunLevelPassSync,
       RunRewardDelivery, RunSeasonClose, FindUnprocessed, FindSeason, ReadPlayer,
       FindGrantable, PlaceReward, FindDelivered, GrantReward, FindDue, CloseSeason,
       SweepFails, ReverseOrder, OverrideLp, StartFirstSeason, SeasonEnds, ChangeLinkedId,
       SaveCheckpoints

\* What applyDecision writes, if no conflict stops it.
LEMMA Credits ==
  ASSUME RowsOK, JobsOK, NEW k \in Sweeps, ApplyDecision(k)
  PROVE  /\ UNCHANGED admin
         /\ \/ UNCHANGED progress
            \/ \E o \in Paid \ Recorded, row \in TxRow :
                 /\ ~row.reversed /\ lpTx' = [lpTx EXCEPT ![o] = row]
                 /\ \A p \in Profiles :
                      lifetime'[p] = IF p = row.profile
                                     THEN [ diamonds |-> lifetime[p].diamonds + row.diamonds,
                                            recharges |-> lifetime[p].recharges + 1 ]
                                     ELSE lifetime[p]
                 /\ \A s \in Seasons, p \in Profiles :
                      stats'[s][p] = IF s = row.season /\ p = row.profile
                                     THEN [ lp |-> stats[s][p].lp + row.awarded,
                                            diamonds |-> stats[s][p].diamonds + row.ranking ]
                                     ELSE stats[s][p]
<1> DEFINE j == sweep[k]
           o == j.order
           f == Financials(o)
           rank == IF linked[j.profile] = f.target THEN f.diamonds ELSE 0
<1>1. UNCHANGED admin
  BY DEF ApplyDecision
<1>2. o \in Paid /\ j.season \in Seasons /\ j.profile \in Profiles
  BY SweepHolds DEF ApplyDecision
<1>3. PICK lp, diamonds, ranking : lp = f.lp /\ diamonds = f.diamonds /\ ranking = rank
  OBVIOUS
<1>4. lp \in Nat /\ diamonds \in Nat /\ ranking \in Nat
  BY <1>2, <1>3, WorthTypes
<1>5. PICK row : row = [ season |-> j.season, profile |-> j.profile, calculated |-> lp,
                         awarded |-> lp, diamonds |-> diamonds, ranking |-> ranking,
                         reversed |-> FALSE ]
  OBVIOUS
<1>6. /\ row \in TxRow /\ ~row.reversed
      /\ row.season = j.season /\ row.profile = j.profile /\ row.awarded = lp
      /\ row.diamonds = diamonds /\ row.ranking = ranking
  BY <1>2, <1>4, <1>5 DEF TxRow
<1>7. CASE lpTx[o] # NoTx
  BY <1>1, <1>7 DEF ApplyDecision, progress
<1>8. CASE lpTx[o] = NoTx
  <2>1. /\ lpTx' = [lpTx EXCEPT ![o] = row]
        /\ stats' = [stats EXCEPT ![j.season][j.profile] =
             [ lp |-> @.lp + lp, diamonds |-> @.diamonds + ranking ]]
        /\ lifetime' = [lifetime EXCEPT ![j.profile] =
             [ diamonds |-> @.diamonds + diamonds, recharges |-> @.recharges + 1 ]]
    BY <1>3, <1>5, <1>8 DEF ApplyDecision
  <2>2. \A p \in Profiles :
          lifetime'[p] = IF p = row.profile
                         THEN [ diamonds |-> lifetime[p].diamonds + row.diamonds,
                                recharges |-> lifetime[p].recharges + 1 ]
                         ELSE lifetime[p]
    BY <1>6, <2>1 DEF RowsOK
  <2>3. \A s \in Seasons, p \in Profiles :
          stats'[s][p] = IF s = row.season /\ p = row.profile
                         THEN [ lp |-> stats[s][p].lp + row.awarded,
                                diamonds |-> stats[s][p].diamonds + row.ranking ]
                         ELSE stats[s][p]
    BY <1>2, <1>6, <2>1 DEF RowsOK
  <2>4. o \in Paid \ Recorded
    BY <1>2, <1>8 DEF Recorded
  <2> QED BY <1>1, <1>6, <2>1, <2>2, <2>3, <2>4
<1> QED BY <1>7, <1>8

\* What a reversal writes, with the transaction that was read before.
LEMMA Reverses ==
  ASSUME RowsOK, JobsOK, HoldsOK, HeldInv, NEW a \in Admins, ReverseWrites(a)
  PROVE  /\ admin' = [admin EXCEPT ![a] = Idle]
         /\ \/ UNCHANGED progress
            \/ /\ AtWork(a) /\ admin[a].order \in Recorded
               /\ ~lpTx[admin[a].order].reversed
               /\ lpTx' = [lpTx EXCEPT ![admin[a].order].reversed = TRUE]
               /\ \A p \in Profiles :
                    lifetime'[p] = IF p = lpTx[admin[a].order].profile
                      THEN [ diamonds |-> AtLeastZero(lifetime[p].diamonds
                                                        - lpTx[admin[a].order].diamonds),
                             recharges |-> AtLeastZero(lifetime[p].recharges - 1) ]
                      ELSE lifetime[p]
               /\ \A s \in Seasons, p \in Profiles :
                    stats'[s][p] =
                      IF s = lpTx[admin[a].order].season /\ p = lpTx[admin[a].order].profile
                      THEN [ lp |-> AtLeastZero(stats[s][p].lp - admin[a].tx.awarded),
                             diamonds |-> AtLeastZero(stats[s][p].diamonds
                                                        - lpTx[admin[a].order].ranking) ]
                      ELSE stats[s][p]
<1>1. admin' = [admin EXCEPT ![a] = Idle]
  BY DEF ReverseWrites, Acts
<1>2. CASE admin[a].tx = NoTx
  BY <1>1, <1>2 DEF ReverseWrites
<1>3. CASE admin[a].tx # NoTx
  <2>1. PICK o, tx, row : o = admin[a].order /\ tx = admin[a].tx /\ row = lpTx[o]
    OBVIOUS
  <2>2. AtWork(a) /\ o \in Orders /\ row \in TxRow /\ o \in Recorded
    BY <1>3, <2>1, AdminHolds, RecordedRows DEF AtWork, ReverseWrites, HoldsOK
  <2>3. /\ tx.season = row.season /\ tx.profile = row.profile
        /\ tx.diamonds = row.diamonds /\ tx.ranking = row.ranking /\ ~row.reversed
    BY <2>1, <2>2 DEF HeldInv, SameSale, ReverseWrites
  <2>4. row.season \in Seasons /\ row.profile \in Profiles
    BY <2>2 DEF TxRow
  <2>5. lpTx' = [lpTx EXCEPT ![o].reversed = TRUE] /\ Unwind(tx)
    BY <1>3, <2>1 DEF ReverseWrites
  <2>6. \A p \in Profiles :
          lifetime'[p] = IF p = row.profile
                         THEN [ diamonds |-> AtLeastZero(lifetime[p].diamonds - row.diamonds),
                                recharges |-> AtLeastZero(lifetime[p].recharges - 1) ]
                         ELSE lifetime[p]
    BY <2>3, <2>4, <2>5 DEF Unwind, RowsOK
  <2>7. \A s \in Seasons, p \in Profiles :
          stats'[s][p] = IF s = row.season /\ p = row.profile
                         THEN [ lp |-> AtLeastZero(stats[s][p].lp - tx.awarded),
                                diamonds |-> AtLeastZero(stats[s][p].diamonds - row.ranking) ]
                         ELSE stats[s][p]
    BY <2>3, <2>4, <2>5 DEF Unwind, RowsOK
  <2> QED BY <1>1, <2>1, <2>2, <2>3, <2>5, <2>6, <2>7
<1> QED BY <1>2, <1>3

\* What an override writes.
LEMMA Overrides ==
  ASSUME RowsOK, JobsOK, HoldsOK, HeldInv, NEW a \in Admins, OverrideWrites(a)
  PROVE  /\ admin' = [admin EXCEPT ![a] = Idle]
         /\ AtWork(a) /\ admin[a].order \in Recorded
         /\ admin[a].awarded \in Nat /\ admin[a].plan.delta \in Int
         /\ lpTx' = [lpTx EXCEPT ![admin[a].order].awarded = admin[a].awarded]
         /\ UNCHANGED lifetime
         /\ \A s \in Seasons, p \in Profiles :
              stats'[s][p] =
                IF s = lpTx[admin[a].order].season /\ p = lpTx[admin[a].order].profile
                THEN [ lp |-> AtLeastZero(stats[s][p].lp + admin[a].plan.delta),
                       diamonds |-> stats[s][p].diamonds ]
                ELSE stats[s][p]
<1>1. admin' = [admin EXCEPT ![a] = Idle] /\ UNCHANGED lifetime
  BY DEF OverrideWrites, Acts
<1>2. PICK o, tx, row, delta : /\ o = admin[a].order /\ tx = admin[a].tx /\ row = lpTx[o]
                               /\ delta = admin[a].plan.delta
  OBVIOUS
<1>3. /\ AtWork(a) /\ o \in Orders /\ row \in TxRow /\ o \in Recorded
      /\ admin[a].awarded \in Nat /\ delta \in Int
  BY <1>2, AdminHolds, RecordedRows DEF AtWork, OverrideWrites, HoldsOK, OverridePlans
<1>4. tx.season = row.season /\ tx.profile = row.profile
  BY <1>2, <1>3 DEF HeldInv, SameSale
<1>5. row.season \in Seasons /\ row.profile \in Profiles
  BY <1>3 DEF TxRow
<1>6. /\ lpTx' = [lpTx EXCEPT ![o].awarded = admin[a].awarded]
      /\ stats' = [stats EXCEPT ![row.season][row.profile].lp = AtLeastZero(@ + delta)]
  BY <1>2, <1>4 DEF OverrideWrites
<1>7. ASSUME NEW s \in Seasons, NEW p \in Profiles
      PROVE  stats'[s][p] = IF s = row.season /\ p = row.profile
                            THEN [ lp |-> AtLeastZero(stats[s][p].lp + delta),
                                   diamonds |-> stats[s][p].diamonds ]
                            ELSE stats[s][p]
  <2>1. stats[s][p] \in StatsRow
    BY DEF RowsOK
  <2>2. CASE s = row.season /\ p = row.profile
    <3>1. stats'[s][p] = [ stats[s][p] EXCEPT !.lp = AtLeastZero(@ + delta) ]
      BY <1>5, <1>6, <2>2 DEF RowsOK
    <3>2. PICK st, lp : st = stats[s][p] /\ lp = AtLeastZero(st.lp + delta)
      OBVIOUS
    <3>3. [ st EXCEPT !.lp = lp ] = [ lp |-> lp, diamonds |-> st.diamonds ]
      BY <2>1, <3>2 DEF StatsRow
    <3> QED BY <2>2, <3>1, <3>2, <3>3
  <2>3. CASE ~(s = row.season /\ p = row.profile)
    BY <1>5, <1>6, <2>3 DEF RowsOK
  <2> QED BY <2>2, <2>3
<1>8. \A s \in Seasons, p \in Profiles :
        stats'[s][p] =
          IF s = lpTx[admin[a].order].season /\ p = lpTx[admin[a].order].profile
          THEN [ lp |-> AtLeastZero(stats[s][p].lp + admin[a].plan.delta),
                 diamonds |-> stats[s][p].diamonds ]
          ELSE stats[s][p]
  BY ONLY <1>2, <1>7
<1>9. lpTx' = [lpTx EXCEPT ![admin[a].order].awarded = admin[a].awarded]
  BY ONLY <1>2, <1>6
<1> QED BY <1>1, <1>2, <1>3, <1>8, <1>9

LEMMA CountersIdle ==
  ASSUME UNCHANGED progress
  PROVE  /\ RecordsInv => RecordsInv'
         /\ CountersMatch => CountersMatch'
         /\ PointsMatch => PointsMatch'
BY DEF progress, RecordsInv, Recorded, CountersMatch, PointsMatch, Counted, CountedIn, Column

LEMMA HeldRecorded ==
  ASSUME RowsOK, JobsOK, HoldsOK, NEW a \in Admins, AtWork(a)
  PROVE  admin[a].order \in Recorded
BY AdminHolds, RecordedRows DEF AtWork, HoldsOK

LEMMA ApplyDecisionCounters ==
  ASSUME RowsOK, JobsOK, HoldsOK, CountersInv, NEW k \in Sweeps, ApplyDecision(k)
  PROVE  CountersInv' /\ (PointsInv => PointsInv')
<1>1. UNCHANGED admin
  BY Credits
<1>2. CASE UNCHANGED progress
  <2>1. HeldInv' /\ (HeldExactly => HeldExactly')
    BY <1>1, <1>2 DEF CountersInv, HeldInv, HeldExactly, AtWork, progress
  <2> QED BY <1>2, <2>1, CountersIdle DEF CountersInv, PointsInv
<1>3. CASE ~ UNCHANGED progress
  <2>1. PICK o \in Paid \ Recorded, row \in TxRow :
          /\ ~row.reversed /\ lpTx' = [lpTx EXCEPT ![o] = row]
          /\ \A p \in Profiles :
               lifetime'[p] = IF p = row.profile
                              THEN [ diamonds |-> lifetime[p].diamonds + row.diamonds,
                                     recharges |-> lifetime[p].recharges + 1 ]
                              ELSE lifetime[p]
          /\ \A s \in Seasons, p \in Profiles :
               stats'[s][p] = IF s = row.season /\ p = row.profile
                              THEN [ lp |-> stats[s][p].lp + row.awarded,
                                     diamonds |-> stats[s][p].diamonds + row.ranking ]
                              ELSE stats[s][p]
    BY <1>3, Credits
  <2>2. RecordsInv /\ CountersMatch /\ HeldInv
    BY DEF CountersInv
  <2>3. CountersMatch' /\ (PointsMatch => PointsMatch')
    BY <2>1, <2>2, CreditCounters
  <2>4. /\ o \in Orders /\ lpTx'[o] = row /\ row # NoTx
        /\ \A q \in Orders \ {o} : lpTx'[q] = lpTx[q]
    BY <2>1, LevelPassAssumption DEF Orders, RowsOK, TxRow, NoTx
  <2>5. Recorded' = Recorded \cup {o}
    BY <2>4 DEF Recorded
  <2>6. RecordsInv'
    BY <2>1, <2>2, <2>5, FS_AddElement DEF RecordsInv
  <2>7. ASSUME NEW a \in Admins, AtWork(a)'
        PROVE  AtWork(a) /\ admin'[a] = admin[a]
               /\ lpTx'[admin[a].order] = lpTx[admin[a].order]
    <3>1. AtWork(a) /\ admin'[a] = admin[a]
      BY <1>1, <2>7 DEF AtWork
    <3>2. admin[a].order \in Orders \ {o}
      BY <2>1, <3>1, HeldRecorded DEF Recorded
    <3> QED BY <2>4, <3>1, <3>2
  <2>8. HeldInv'
    BY <2>2, <2>7 DEF HeldInv
  <2>9. HeldExactly => HeldExactly'
    BY <2>7 DEF HeldExactly
  <2> QED BY <2>3, <2>6, <2>8, <2>9 DEF CountersInv, PointsInv
<1> QED BY <1>2, <1>3

\* Who begins holds what was read.
LEMMA ReadsCounters ==
  ASSUME JobsOK, CountersInv, NEW a \in Admins, NEW o \in Orders,
         \/ ReverseReads(a, o)
         \/ \E lp \in OverrideValues : OverrideReads(a, o, lp)
  PROVE  CountersInv' /\ (PointsInv => PointsInv')
<1>1. UNCHANGED progress
  BY DEF ReverseReads, OverrideReads
<1>2. PICK job :
        /\ admin' = [admin EXCEPT ![a] = job]
        /\ job.order = o
        /\ (job.pc = "override" \/ job.tx # NoTx) =>
             /\ job.tx = lpTx[o] /\ ~lpTx[o].reversed
             /\ job.pc = "override" => job.plan.delta = job.awarded - job.tx.awarded
  <2>1. CASE ReverseReads(a, o)
    <3>1. PICK held, plan :
            /\ admin' = [admin EXCEPT ![a] = [ pc |-> "reverse", order |-> o, tx |-> held,
                                               plan |-> plan ]]
            /\ held = IF lpTx[o].reversed THEN NoTx ELSE lpTx[o]
      BY <2>1 DEF ReverseReads, Acts
    <3> DEFINE job == [ pc |-> "reverse", order |-> o, tx |-> held, plan |-> plan ]
    <3>2. /\ admin' = [admin EXCEPT ![a] = job]
          /\ job.pc = "reverse" /\ job.order = o /\ job.tx = held
      BY <3>1
    <3> HIDE DEF job
    <3> QED BY <3>1, <3>2
  <2>2. ASSUME NEW lp \in OverrideValues, OverrideReads(a, o, lp)
        PROVE  \E job :
                 /\ admin' = [admin EXCEPT ![a] = job]
                 /\ job.order = o /\ job.tx = lpTx[o] /\ ~lpTx[o].reversed
                 /\ job.plan.delta = job.awarded - job.tx.awarded
    <3>1. PICK plan :
            /\ admin' = [admin EXCEPT ![a] = [ pc |-> "override", order |-> o, tx |-> lpTx[o],
                                               awarded |-> lp, plan |-> plan ]]
            /\ plan.delta = lp - lpTx[o].awarded
      <4>1. PICK plan :
              plan = PlanOverride(lpTx[o].awarded, lp, stats[lpTx[o].season][lpTx[o].profile].lp,
                                  ladder, EventsOf(lpTx[o].season, lpTx[o].profile),
                                  vault[lpTx[o].season][lpTx[o].profile] = "active")
        OBVIOUS
      <4>2. plan.delta = lp - lpTx[o].awarded
        BY ONLY <4>1 DEF PlanOverride
      <4>3. admin' = [admin EXCEPT ![a] = [ pc |-> "override", order |-> o, tx |-> lpTx[o],
                                            awarded |-> lp, plan |-> plan ]]
        BY <2>2, <4>1 DEF OverrideReads, Acts
      <4> QED BY <4>2, <4>3
    <3> DEFINE job == [ pc |-> "override", order |-> o, tx |-> lpTx[o], awarded |-> lp,
                        plan |-> plan ]
    <3>2. /\ admin' = [admin EXCEPT ![a] = job]
          /\ job.order = o /\ job.tx = lpTx[o]
          /\ job.plan.delta = job.awarded - job.tx.awarded
      BY <3>1
    <3>3. ~lpTx[o].reversed
      BY <2>2 DEF OverrideReads
    <3> QED BY <3>2, <3>3
  <2> QED BY <2>1, <2>2
<1>3. \A b \in Admins : admin'[b] = IF b = a THEN job ELSE admin[b]
  BY <1>2 DEF JobsOK
<1>4. UNCHANGED lpTx
  BY <1>1 DEF progress
<1>5. HeldInv'
  <2> SUFFICES ASSUME NEW b \in Admins, AtWork(b)'
               PROVE  /\ SameSale(admin'[b].tx, lpTx[admin'[b].order])
                      /\ admin'[b].pc = "reverse" => ~lpTx[admin'[b].order].reversed
    BY <1>4 DEF HeldInv, SameSale
  <2>1. CASE b = a
    BY <1>2, <1>3, <2>1 DEF AtWork, SameSale
  <2>2. CASE b # a
    BY <1>3, <2>2 DEF AtWork, CountersInv, HeldInv
  <2> QED BY <2>1, <2>2
<1>6. ASSUME HeldExactly PROVE HeldExactly'
  <2> SUFFICES ASSUME NEW b \in Admins, AtWork(b)'
               PROVE  /\ admin'[b].tx = lpTx[admin'[b].order]
                      /\ ~lpTx[admin'[b].order].reversed
                      /\ admin'[b].pc = "override" =>
                           admin'[b].plan.delta = admin'[b].awarded - admin'[b].tx.awarded
    BY <1>4 DEF HeldExactly
  <2>1. CASE b = a
    BY <1>2, <1>3, <2>1 DEF AtWork
  <2>2. CASE b # a
    BY <1>3, <1>6, <2>2 DEF AtWork, HeldExactly
  <2> QED BY <2>1, <2>2
<1> QED BY <1>1, <1>5, <1>6, CountersIdle DEF CountersInv, PointsInv

\* An admin is done, and a row is another for it.
LEMMA DoneHeld ==
  ASSUME RowsOK, JobsOK, HoldsOK, HeldInv, ReversalsHeld, NEW a \in Admins, AtWork(a),
         admin' = [admin EXCEPT ![a] = Idle],
         NEW row, lpTx' = [lpTx EXCEPT ![admin[a].order] = row],
         SameSale(lpTx[admin[a].order], row),
         row.reversed = lpTx[admin[a].order].reversed \/ admin[a].pc = "reverse"
  PROVE  HeldInv' /\ (OrdersApart /\ HeldExactly => HeldExactly')
<1>1. admin'[a].pc = "idle" /\ \A b \in Admins \ {a} : admin'[b] = admin[b]
  BY IdleIsAJob DEF JobsOK
<1>2. PICK o : o = admin[a].order /\ o \in Orders
  BY AdminHolds DEF AtWork
<1>3. lpTx'[o] = row /\ \A q \in Orders \ {o} : lpTx'[q] = lpTx[q]
  BY <1>2 DEF RowsOK
<1>4. ASSUME NEW b \in Admins, AtWork(b)'
      PROVE  /\ b # a /\ AtWork(b) /\ admin'[b] = admin[b] /\ admin[b].order \in Orders
             /\ admin[b].pc # "idle" /\ admin[a].pc # "idle"
  <2>1. b # a
    BY <1>1, <1>4 DEF AtWork
  <2> QED BY <1>1, <1>4, <2>1, AdminHolds DEF AtWork
<1>5. ASSUME NEW b \in Admins, AtWork(b)'
      PROVE  /\ SameSale(admin'[b].tx, lpTx'[admin'[b].order])
             /\ admin'[b].pc = "reverse" => ~lpTx'[admin'[b].order].reversed
  <2>1. CASE admin[b].order # o
    BY <1>3, <1>4, <1>5, <2>1 DEF HeldInv
  <2>2. CASE admin[b].order = o
    <3>1. SameSale(admin[b].tx, row)
      BY <1>2, <1>4, <1>5, <2>2 DEF HeldInv, SameSale
    <3>2. admin[b].pc = "reverse" => ~row.reversed
      BY <1>2, <1>4, <1>5, <2>2 DEF HeldInv, ReversalsHeld
    <3> QED BY <1>3, <1>4, <1>5, <2>2, <3>1, <3>2
  <2> QED BY <2>1, <2>2
<1>6. ASSUME OrdersApart, HeldExactly PROVE HeldExactly'
  <2>1. ASSUME NEW b \in Admins, AtWork(b)'
        PROVE  /\ AtWork(b) /\ admin'[b] = admin[b]
               /\ lpTx'[admin[b].order] = lpTx[admin[b].order]
    <3>1. admin[b].order # o
      BY <1>2, <1>4, <1>6, <2>1 DEF OrdersApart
    <3> QED BY <1>3, <1>4, <2>1, <3>1
  <2> QED BY <1>6, <2>1 DEF HeldExactly
<1>7. HeldInv'
  BY <1>5 DEF HeldInv, SameSale
<1> QED BY <1>6, <1>7

LEMMA ReverseWritesCounters ==
  ASSUME RowsOK, JobsOK, HoldsOK, ReversalsHeld, CountersInv,
         NEW a \in Admins, ReverseWrites(a)
  PROVE  CountersInv' /\ (OrdersApart /\ PointsInv => PointsInv')
<1>1. RecordsInv /\ HeldInv /\ CountersMatch
  BY DEF CountersInv
<1>2. admin' = [admin EXCEPT ![a] = Idle]
  BY <1>1, Reverses
<1>3. CASE UNCHANGED progress
  <2>1. \A b \in Admins : AtWork(b)' => AtWork(b) /\ admin'[b] = admin[b]
    BY <1>2, IdleIsAJob DEF AtWork, JobsOK
  <2>2. UNCHANGED lpTx
    BY <1>3 DEF progress
  <2>3. HeldInv' /\ (HeldExactly => HeldExactly')
    BY <1>1, <2>1, <2>2 DEF HeldInv, HeldExactly
  <2> QED BY <1>1, <1>3, <2>3, CountersIdle DEF CountersInv, PointsInv
<1>4. CASE ~ UNCHANGED progress
  <2>1. PICK o, lost : o = admin[a].order /\ lost = admin[a].tx.awarded
    OBVIOUS
  <2>2. /\ AtWork(a) /\ o \in Recorded /\ ~lpTx[o].reversed
        /\ lpTx' = [lpTx EXCEPT ![o].reversed = TRUE]
        /\ \A p \in Profiles :
             lifetime'[p] = IF p = lpTx[o].profile
               THEN [ diamonds |-> AtLeastZero(lifetime[p].diamonds - lpTx[o].diamonds),
                      recharges |-> AtLeastZero(lifetime[p].recharges - 1) ]
               ELSE lifetime[p]
        /\ \A s \in Seasons, p \in Profiles :
             stats'[s][p] = IF s = lpTx[o].season /\ p = lpTx[o].profile
               THEN [ lp |-> AtLeastZero(stats[s][p].lp - lost),
                      diamonds |-> AtLeastZero(stats[s][p].diamonds - lpTx[o].ranking) ]
               ELSE stats[s][p]
    BY <1>1, <1>4, <2>1, Reverses
  <2>3. /\ CountersMatch => CountersMatch'
        /\ lost = lpTx[o].awarded /\ PointsMatch => PointsMatch'
    BY <1>1, <2>2, ReversalCounters
  <2>4. o \in Orders /\ lpTx[o] \in TxRow
    BY <2>2, RecordedRows
  <2>5. PICK row : row = [lpTx[o] EXCEPT !.reversed = TRUE]
    OBVIOUS
  <2>6. /\ lpTx' = [lpTx EXCEPT ![o] = row] /\ row \in TxRow
        /\ row.season = lpTx[o].season /\ row.profile = lpTx[o].profile
        /\ row.diamonds = lpTx[o].diamonds /\ row.ranking = lpTx[o].ranking
    BY <2>2, <2>4, <2>5 DEF RowsOK, TxRow
  <2>7. HeldInv' /\ (OrdersApart /\ HeldExactly => HeldExactly')
    <3>1. SameSale(lpTx[admin[a].order], row)
      BY <2>1, <2>6 DEF SameSale
    <3>2. lpTx' = [lpTx EXCEPT ![admin[a].order] = row] /\ admin[a].pc = "reverse"
      BY <2>1, <2>6 DEF ReverseWrites
    <3> QED BY <1>1, <1>2, <2>2, <3>1, <3>2, DoneHeld
  <2>8. \A q \in Orders : lpTx'[q] = IF q = o THEN row ELSE lpTx[q]
    BY <2>4, <2>6 DEF RowsOK
  <2>9. Recorded' = Recorded
    BY <2>6, <2>8, <2>2, LevelPassAssumption DEF Recorded, TxRow, NoTx
  <2>10. RecordsInv'
    BY <1>1, <2>9 DEF RecordsInv
  <2>11. HeldExactly => lost = lpTx[o].awarded
    BY <2>1, <2>2 DEF HeldExactly
  <2> QED BY <1>1, <2>3, <2>7, <2>10, <2>11 DEF CountersInv, PointsInv
<1> QED BY <1>3, <1>4

LEMMA OverrideWritesCounters ==
  ASSUME RowsOK, JobsOK, HoldsOK, ReversalsHeld, CountersInv,
         NEW a \in Admins, OverrideWrites(a)
  PROVE  CountersInv' /\ (OrdersApart /\ PointsInv => PointsInv')
<1>1. RecordsInv /\ HeldInv /\ CountersMatch
  BY DEF CountersInv
<1>2. PICK o, n, delta : /\ o = admin[a].order /\ n = admin[a].awarded
                         /\ delta = admin[a].plan.delta
  OBVIOUS
<1>3. /\ admin' = [admin EXCEPT ![a] = Idle]
      /\ AtWork(a) /\ o \in Recorded /\ n \in Nat /\ delta \in Int
      /\ lpTx' = [lpTx EXCEPT ![o].awarded = n] /\ UNCHANGED lifetime
      /\ \A s \in Seasons, p \in Profiles :
           stats'[s][p] = IF s = lpTx[o].season /\ p = lpTx[o].profile
                          THEN [ lp |-> AtLeastZero(stats[s][p].lp + delta),
                                 diamonds |-> stats[s][p].diamonds ]
                          ELSE stats[s][p]
  BY <1>1, <1>2, Overrides
<1>4. /\ CountersMatch => CountersMatch'
      /\ (~lpTx[o].reversed /\ delta = n - lpTx[o].awarded /\ PointsMatch) => PointsMatch'
  BY <1>1, <1>3, OverrideCounters
<1>5. o \in Orders /\ lpTx[o] \in TxRow
  BY <1>3, RecordedRows
<1>6. PICK row : row = [lpTx[o] EXCEPT !.awarded = n]
  OBVIOUS
<1>7. /\ lpTx' = [lpTx EXCEPT ![o] = row] /\ row \in TxRow
      /\ row.season = lpTx[o].season /\ row.profile = lpTx[o].profile
      /\ row.diamonds = lpTx[o].diamonds /\ row.ranking = lpTx[o].ranking
      /\ row.reversed = lpTx[o].reversed
  BY <1>3, <1>5, <1>6 DEF RowsOK, TxRow
<1>8. HeldInv' /\ (OrdersApart /\ HeldExactly => HeldExactly')
  <2>1. SameSale(lpTx[admin[a].order], row)
    BY <1>2, <1>7 DEF SameSale
  <2>2. /\ lpTx' = [lpTx EXCEPT ![admin[a].order] = row]
        /\ row.reversed = lpTx[admin[a].order].reversed
    BY <1>2, <1>7
  <2> QED BY <1>1, <1>3, <2>1, <2>2, DoneHeld
<1>9. \A q \in Orders : lpTx'[q] = IF q = o THEN row ELSE lpTx[q]
  BY <1>5, <1>7 DEF RowsOK
<1>10. Recorded' = Recorded
  BY <1>3, <1>7, <1>9, LevelPassAssumption DEF Recorded, TxRow, NoTx
<1>11. RecordsInv'
  BY <1>1, <1>10 DEF RecordsInv
<1>12. HeldExactly => ~lpTx[o].reversed /\ delta = n - lpTx[o].awarded
  BY <1>2, <1>3 DEF HeldExactly, OverrideWrites
<1> QED BY <1>1, <1>4, <1>8, <1>11, <1>12 DEF CountersInv, PointsInv

LEMMA CountersInit == Init => CountersInv /\ PointsInv
<1> SUFFICES ASSUME Init PROVE CountersInv /\ PointsInv
  OBVIOUS
<1>1. \A o \in Orders : lpTx[o] = NoTx
  BY DEF Init
<1>2. Recorded = {} /\ RecordsInv
  BY <1>1, FS_EmptySet DEF Recorded, RecordsInv
<1>3. HeldInv /\ HeldExactly
  BY IdleIsAJob DEF Init, HeldInv, HeldExactly, AtWork
<1>4. \A p \in Profiles : Counted(p) = {} /\ \A s \in Seasons : CountedIn(s, p) = {}
  BY <1>1, LevelPassAssumption DEF Counted, CountedIn, NoTx
<1>5. ASSUME NEW p \in Profiles
      PROVE  /\ lifetime[p].recharges = Cardinality(Counted(p) \cap Paid)
             /\ lifetime[p].diamonds = SumFunctionOnSet(Column("diamonds"), Counted(p) \cap Paid)
  <2>1. Counted(p) \cap Paid = {}
    BY <1>4
  <2>2. lifetime[p].recharges = 0 /\ lifetime[p].diamonds = 0
    BY DEF Init
  <2> QED BY <2>1, <2>2, SumOfNothing, FS_EmptySet
<1>6. ASSUME NEW s \in Seasons, NEW p \in Profiles
      PROVE  /\ stats[s][p].diamonds = SumFunctionOnSet(Column("ranking"), CountedIn(s, p))
             /\ stats[s][p].lp = SumFunctionOnSet(Column("awarded"), CountedIn(s, p))
  <2>1. stats[s][p].lp = 0 /\ stats[s][p].diamonds = 0
    BY DEF Init
  <2> QED BY <1>4, <2>1, SumOfNothing
<1> QED BY <1>2, <1>3, <1>5, <1>6 DEF CountersInv, PointsInv, CountersMatch, PointsMatch

LEMMA CountersStep ==
  ASSUME TypeInv, ReversalsHeld, CountersInv, [Next]_vars
  PROVE  CountersInv' /\ (OrdersApart /\ PointsInv => PointsInv')
<1>1. RowsOK /\ JobsOK /\ HoldsOK
  BY RowsOfTypes DEF TypeInv
<1>2. CASE UNCHANGED <<progress, admin>>
  <2>1. HeldInv' /\ (HeldExactly => HeldExactly')
    BY <1>2 DEF CountersInv, HeldInv, HeldExactly, AtWork, progress
  <2> QED BY <1>2, <2>1, CountersIdle DEF CountersInv, PointsInv
<1>3. CASE \E k \in Sweeps : ApplyDecision(k)
  BY <1>1, <1>3, ApplyDecisionCounters
<1>4. CASE \/ \E a \in Admins, o \in Orders : ReverseReads(a, o)
           \/ \E a \in Admins, o \in Orders, lp \in OverrideValues : OverrideReads(a, o, lp)
  BY <1>1, <1>4, ReadsCounters
<1>5. CASE \E a \in Admins : ReverseWrites(a) \/ OverrideWrites(a)
  BY <1>1, <1>5, ReverseWritesCounters, OverrideWritesCounters
<1> QED BY <1>2, <1>3, <1>4, <1>5, CounterSteps

(* Lifetime counters and rankings are what the uncancelled transactions    *)
(* recorded, for any number of sweeps, of admins and of orders, and even   *)
(* if several admins work on one order at once.                            *)
THEOREM LevelPassCounters == Spec => []CountersMatch
<1>1. Spec => [](TypeInv /\ BooksInv)
  BY TypesInit, TypesStep, BooksInit, BooksStep, PTL DEF Spec
<1>2. TypeInv /\ BooksInv /\ CountersInv /\ [Next]_vars => CountersInv'
  BY CountersStep DEF BooksInv
<1>3. Init => CountersInv
  BY CountersInit
<1>4. CountersInv => CountersMatch
  BY DEF CountersInv
<1> QED BY <1>1, <1>2, <1>3, <1>4, PTL DEF Spec

(* Points, too, are the sum of what the orders were awarded, as long as    *)
(* admins do not work on the same order at once; one admin never does.     *)
THEOREM LevelPassPoints == Spec /\ []OrdersApart => []StatsMatch
<1>1. Spec => [](TypeInv /\ BooksInv)
  BY TypesInit, TypesStep, BooksInit, BooksStep, PTL DEF Spec
<1>2. /\ TypeInv /\ BooksInv /\ CountersInv /\ PointsInv /\ OrdersApart /\ [Next]_vars
      => CountersInv' /\ PointsInv'
  BY CountersStep DEF BooksInv
<1>3. Init => CountersInv /\ PointsInv
  BY CountersInit
<1>4. CountersInv /\ PointsInv => StatsMatch
  BY DEF CountersInv, PointsInv, StatsMatch
<1> QED BY <1>1, <1>2, <1>3, <1>4, PTL DEF Spec

\* A season's report is made of the pages of its customers.
LEMMA ReportsOfCounters ==
  ASSUME RowsOK, RecordsInv, PointsMatch, IsFiniteSet(Profiles), NEW s \in Seasons
  PROVE  /\ SeasonFigures(s).profit
              = SumFunctionOnSet([ p \in Profiles |-> CustomerProfit(s, p) ], Profiles)
         /\ SeasonFigures(s).awarded
              = SumFunctionOnSet([ p \in Profiles |-> stats[s][p].lp ], Profiles)
<1>1. PICK rows, sold : rows = Counting(s, Profiles) /\ sold = rows \cap Paid
  OBVIOUS
<1>2. rows \subseteq Recorded /\ rows \subseteq Orders /\ sold \subseteq Paid
  BY <1>1, LevelPassAssumption DEF Counting, Recorded, NoTx
<1>3. IsFiniteSet(rows) /\ IsFiniteSet(sold)
  BY <1>1, <1>2, FS_Subset DEF RecordsInv
<1>4. PICK own : own = [ o \in rows |-> lpTx[o].profile ]
  OBVIOUS
<1>5. PICK ownSold : ownSold = [ o \in sold |-> lpTx[o].profile ]
  OBVIOUS
<1>6. own \in [rows -> Profiles] /\ ownSold \in [sold -> Profiles]
  BY <1>1, <1>4, <1>5 DEF Counting
<1>7. SeasonFigures(s).profit = SumFunctionOnSet(Profit, sold)
  BY <1>1 DEF SeasonFigures
<1>8. SeasonFigures(s).awarded = SumFunctionOnSet(Column("awarded"), rows)
  BY <1>1 DEF SeasonFigures
<1>9. SumFunctionOnSet(Profit, sold)
        = SumFunctionOnSet([ p \in Profiles |-> CustomerProfit(s, p) ], Profiles)
  <2>1. \A o \in sold : Profit[o] \in Int
    BY <1>2, LevelPassAssumption
  <2>2. SumFunctionOnSet(Profit, sold)
          = SumFunctionOnSet([ p \in Profiles |->
                SumFunctionOnSet(Profit, { o \in sold : ownSold[o] = p }) ], Profiles)
    BY <1>3, <1>6, <2>1, SumByOwner
  <2>3. ASSUME NEW p \in Profiles
        PROVE  SumFunctionOnSet(Profit, { o \in sold : ownSold[o] = p }) = CustomerProfit(s, p)
    <3>1. { o \in sold : ownSold[o] = p } = Counting(s, {p}) \cap Paid
      BY <1>1, <1>5 DEF Counting
    <3> QED BY <3>1 DEF CustomerProfit
  <2>4. [ p \in Profiles |-> SumFunctionOnSet(Profit, { o \in sold : ownSold[o] = p }) ]
          = [ p \in Profiles |-> CustomerProfit(s, p) ]
    BY <2>3
  <2> QED BY <2>2, <2>4
<1>10. SumFunctionOnSet(Column("awarded"), rows)
         = SumFunctionOnSet([ p \in Profiles |-> stats[s][p].lp ], Profiles)
  <2>1. PICK f : f = Column("awarded")
    OBVIOUS
  <2>2. \A o \in rows : f[o] \in Int
    BY <1>2, <2>1, ColumnTypes
  <2>3. SumFunctionOnSet(f, rows)
          = SumFunctionOnSet([ p \in Profiles |->
                SumFunctionOnSet(f, { o \in rows : own[o] = p }) ], Profiles)
    BY <1>3, <1>6, <2>2, SumByOwner
  <2>4. ASSUME NEW p \in Profiles
        PROVE  SumFunctionOnSet(f, { o \in rows : own[o] = p }) = stats[s][p].lp
    <3>1. { o \in rows : own[o] = p } = CountedIn(s, p)
      BY <1>1, <1>4 DEF Counting, CountedIn, Counted
    <3>2. stats[s][p].lp = SumFunctionOnSet(f, CountedIn(s, p))
      BY <2>1 DEF PointsMatch
    <3> QED BY <3>1, <3>2
  <2>5. [ p \in Profiles |-> SumFunctionOnSet(f, { o \in rows : own[o] = p }) ]
          = [ p \in Profiles |-> stats[s][p].lp ]
    BY <2>4
  <2> QED BY <2>1, <2>3, <2>5
<1> QED BY <1>7, <1>8, <1>9, <1>10

(* The whole ledger: rewards and refunds are booked once each, reports pay *)
(* for what was booked, and a season's report is the sum of the pages of   *)
(* its customers, of whom there are finitely many.                         *)
THEOREM LevelPassLedger ==
  ASSUME IsFiniteSet(Profiles)
  PROVE  Spec /\ []OrdersApart => []LedgerMatches
<1>1. Spec => [](TypeInv /\ BooksInv)
  BY TypesInit, TypesStep, BooksInit, BooksStep, PTL DEF Spec
<1>2. /\ TypeInv /\ BooksInv /\ CountersInv /\ PointsInv /\ OrdersApart /\ [Next]_vars
      => CountersInv' /\ PointsInv'
  BY CountersStep DEF BooksInv
<1>3. Init => CountersInv /\ PointsInv
  BY CountersInit
<1>4. TypeInv /\ CountersInv /\ PointsInv => ReportsAddUp
  <2> SUFFICES ASSUME TypeInv, CountersInv, PointsInv PROVE ReportsAddUp
    OBVIOUS
  <2>1. RowsOK /\ RecordsInv /\ PointsMatch
    BY RowsOfTypes DEF TypeInv, CountersInv, PointsInv
  <2> QED BY <2>1, ReportsOfCounters DEF ReportsAddUp
<1>5. Spec /\ []OrdersApart => []ReportsAddUp
  BY <1>1, <1>2, <1>3, <1>4, PTL DEF Spec
<1>6. /\ RewardsAreBooked /\ RefundsAreBooked /\ RewardsAreReported /\ ReportsAddUp
      => LedgerMatches
  BY DEF LedgerMatches
<1> QED BY <1>5, <1>6, LevelPassBooked, LevelPassReports, PTL

=============================================================================
