----------------------------- MODULE SupplyProofs -----------------------------
(***************************************************************************)
(* What the catalog keeps to for any products, providers' answers, recipes *)
(* and orders, whoever syncs, switches, saves, buys or restarts meanwhile: *)
(* types, the denomination of everything that was sold, the evidence of    *)
(* what was sent, and the worker's order against its own sync.             *)
(***************************************************************************)
EXTENDS SupplyProps, WellFoundedInduction, TLAPS

------------------------------------------------------------------------------
(* The inductive invariant.                                                *)

Places    == DOMAIN FirstRecipe
SyncAts   == { "upsert", "repoint", "retire" }
SwitchAts == { "switch", "move", "set", "fall" }

Upserts == [ id : Products, diamonds : DenominationSet, cost : Nat, kind : Kinds ]
MoveSet == [ from : Products, to : Products, cost : Nat ]
Plans   == [ upserts : SUBSET Upserts, moves : SUBSET MoveSet, retire : SUBSET Products ]

SyncTasks   == [ at : SyncAts, provider : Providers, plan : Plans ]
SwitchTasks == [ at : SwitchAts, target : Providers, moves : SUBSET MoveSet ]
ReadTasks   == [ at : { "save" }, provider : Providers, line : [ Places -> Nat ], found : { <<>> } ]
WriteTasks  == [ at : { "write" }, provider : Providers, line : [ Places -> Nat ],
                 found : [ Places -> Products ] ]
BuyTasks    == [ at : { "persist" }, order : Orders, line : [ Places -> Line ] ]
Tasks       == { Idle } \cup SyncTasks \cup SwitchTasks \cup ReadTasks \cup WriteTasks \cup BuyTasks

Loads == [ product : Products, cost : Nat, active : BOOLEAN ]
Jobs(D) == [ order : Orders, at : { "next", "out", "judge", "throw", "halted" },
             held : [ D -> Loads ], item : Nat ]

\* An id is stored as that many diamonds, and as nothing else ever.
Points(id, d) == Stored(id) /\ rows[id].diamonds = d
FirstDiamonds(n) == FirstRows[FirstRecipe[n]].diamonds

RowsOK == rows \in [ Products -> Stocks \cup {NoRow} ]
RecipeOK ==
  /\ recipe \in [ Places -> Products ]
  /\ \A n \in Places : Points(recipe[n], FirstDiamonds(n))
ItemsOK ==
  /\ items \in [ Orders -> { <<>> } \cup [ Places -> Line ] ]
  /\ \A o \in Orders : \A n \in DOMAIN items[o] :
       Points(items[o][n].product, items[o][n].diamonds)
SettingsOK ==
  /\ active \in Providers /\ emergency \in BOOLEAN
  /\ orderStatus \in [ Orders -> OrderStatuses ]
  /\ errors \in [ Providers -> 0 .. ErrorThreshold - 1 ]
LocksOK == boundary \in { "worker", "sweep", None } /\ lock \in [ Providers -> Actors \cup {None} ]

\* The worker's order is under the boundary, and a call in flight under the lock
\* of the provider it went to.
JobOK ==
  \/ job = NoJob
  \/ /\ \E D \in SUBSET Places : job \in Jobs(D)
     /\ boundary = "worker"
     /\ DOMAIN job.held \subseteq DOMAIN items[job.order]
     /\ job.at \in { "out", "judge" } =>
          job.item \in DOMAIN job.held /\ lock[Provider(job.item)] = "worker"

\* A sync holds the lock of its provider, and the worker's own the boundary.
Guarded(a) ==
  /\ task[a].at \in SyncAts =>
       /\ a \in { "sweep", "cli" } /\ lock[task[a].provider] = a
       /\ a = "sweep" => boundary = "sweep"
  /\ task[a].at = "persist" => a = "buyer"
TasksOK == task \in [ Actors -> Tasks ] /\ \A a \in Actors : Guarded(a)

Moving(moves) == \A m \in moves : Stored(m.from) /\ Points(m.to, rows[m.from].diamonds)
OneEach(upserts) == \A u, v \in upserts : u.id = v.id => u = v
Upserting(p, plan) ==
  /\ \A u \in plan.upserts : ProviderOf[u.id] = p /\ (Stored(u.id) => rows[u.id].diamonds = u.diamonds)
  /\ OneEach(plan.upserts)
  /\ \A m \in plan.moves : Stored(m.from) /\ \E u \in plan.upserts :
                              m.to = u.id /\ rows[m.from].diamonds = u.diamonds

\* What an actor read still holds, as far as its next transaction needs.
TaskHolds(t) ==
  /\ t.at = "upsert" => Upserting(t.provider, t.plan)
  /\ t.at = "repoint" => Moving(t.plan.moves)
  /\ t.at = "move" => Moving(t.moves)
  /\ t.at \in { "save", "write" } => \A n \in Places : t.line[n] = FirstDiamonds(n)
  /\ t.at = "write" => \A n \in Places : Points(t.found[n], FirstDiamonds(n))
  /\ t.at = "persist" =>
       /\ items[t.order] = <<>>
       /\ \A n \in Places : Points(t.line[n].product, t.line[n].diamonds)
HoldsOK == \A a \in Actors : TaskHolds(task[a])

SupplyInv == /\ RowsOK /\ RecipeOK /\ ItemsOK /\ SettingsOK /\ LocksOK
             /\ JobOK /\ TasksOK /\ HoldsOK

------------------------------------------------------------------------------
(* What a sync makes of an answer.                                         *)

\* A set of numbers has a least.
LEMMA LeastNumber ==
  ASSUME NEW S \in SUBSET Nat, S # {}
  PROVE  Min(S) \in S /\ \A k \in S : Min(S) <= k
<1> DEFINE R == OpToRel(<, Nat)
<1>1. IsWellFoundedOn(R, Nat)
  BY NatLessThanWellFounded
<1>2. \A x, y \in Nat : y < x => <<y, x>> \in R
  BY DEF OpToRel
<1> HIDE DEF R
<1>3. PICK x \in S : \A y \in S : ~ (<<y, x>> \in R)
  BY <1>1, WFMin
<1>4. ASSUME NEW y \in S PROVE x <= y
  <2>1. x \in Nat /\ y \in Nat
    OBVIOUS
  <2>2. ~ (y < x)
    BY <1>2, <1>3, <2>1
  <2> QED BY <2>1, <2>2
<1> QED BY <1>4 DEF Min

\* What holds of no number, or of one with none before it, holds of none.
LEMMA LeastMissing ==
  ASSUME NEW L \in Nat, NEW S \in SUBSET (0..L),
         0 \in S, \A n \in 0..L : n + 1 \in 0..L /\ n \in S => n + 1 \in S
  PROVE  \A n \in 0..L : n \in S
<1> DEFINE Missing == (0..L) \ S
<1>1. SUFFICES ASSUME Missing # {} PROVE FALSE
  OBVIOUS
<1>2. Missing \in SUBSET Nat
  OBVIOUS
<1> DEFINE m == Min(Missing)
<1>3. m \in Missing /\ \A k \in Missing : m <= k
  BY <1>1, <1>2, LeastNumber
<1> HIDE DEF m
<1>4. m \in 0..L /\ m # 0 /\ m - 1 \in 0..L /\ m - 1 \notin Missing
  BY <1>3
<1> QED BY <1>3, <1>4

\* The pick is one of the rows it is picked from.
LEMMA PickOne ==
  ASSUME NEW catalog, NEW places \in SUBSET Nat, places # {}, NEW sold
  PROVE  \E n \in places : Pick(catalog, places, sold) = catalog[n]
<1> DEFINE rank(n) == Rank(catalog[n].kind)
           ranks == { rank(n) : n \in places }
           best == { n \in places : \A k \in places : rank(n) <= rank(k) }
           kept == { n \in best : catalog[n].id \in sold /\ catalog[n].cost # NoPrice }
<1>1. \A n \in places : rank(n) \in Nat
  BY DEF Rank
<1> HIDE DEF rank
<1>2. ranks \in SUBSET Nat /\ ranks # {}
  BY <1>1
<1>3. PICK n \in places : rank(n) = Min(ranks)
  BY <1>2, LeastNumber
<1>4. n \in best
  BY <1>2, <1>3, LeastNumber
<1> DEFINE some == IF kept = {} THEN best ELSE kept
<1>5. some \in SUBSET Nat /\ some # {} /\ some \subseteq places
  BY <1>4
<1>6. Pick(catalog, places, sold) = catalog[Min(some)]
  BY DEF Pick, rank
<1> HIDE DEF some
<1> QED BY <1>5, <1>6, LeastNumber

\* Every id it would write means one denomination, in the plan and in the table.
MapSound(p, acc) ==
  /\ acc.upserts \subseteq Upserts
  /\ \A u \in acc.upserts :
       /\ ProviderOf[u.id] = p /\ u.id \in acc.claimed
       /\ Stored(u.id) => rows[u.id].diamonds = u.diamonds
  /\ OneEach(acc.upserts)

LEMMA MapOneSound ==
  ASSUME NEW p \in Providers, NEW catalog \in Seq(Offers(p)), NEW sold,
         NEW acc, MapSound(p, acc), NEW d \in DenominationSet
  PROVE  MapSound(p, MapOne(catalog, sold, acc, d))
<1>0. \A u \in acc.upserts :
        /\ u \in Upserts /\ ProviderOf[u.id] = p /\ u.id \in acc.claimed
        /\ Stored(u.id) => rows[u.id].diamonds = u.diamonds
  BY DEF MapSound
<1> DEFINE found == Candidates(catalog, d)
           fit   == { n \in found : ~Clashes(catalog[n], d, acc.claimed) }
           pick  == IF fit = {} THEN {} ELSE { Pick(catalog, fit, sold) }
           new   == MapOne(catalog, sold, acc, d)
<1>1. ASSUME NEW row \in pick
      PROVE  /\ row \in Offers(p) /\ row.diamonds = d
             /\ row.id \notin acc.claimed
             /\ Stored(row.id) => rows[row.id].diamonds = d
  <2>1. fit # {} /\ fit \in SUBSET Nat /\ row = Pick(catalog, fit, sold)
    BY <1>1 DEF Candidates
  <2> HIDE DEF fit
  <2>2. PICK n \in fit : row = catalog[n]
    BY <2>1, PickOne
  <2> USE DEF fit
  <2>3. n \in DOMAIN catalog /\ catalog[n].diamonds = d /\ ~Clashes(catalog[n], d, acc.claimed)
    BY <2>2 DEF Candidates
  <2> QED BY <2>2, <2>3 DEF Clashes
<1>2. \A r, q \in pick : r = q
  OBVIOUS
<1>3. /\ new.claimed = acc.claimed \cup { row.id : row \in pick }
      /\ new.upserts = acc.upserts \cup { row \in pick : row.cost # NoPrice /\ Buyable(row.kind) }
  BY DEF MapOne
<1> HIDE DEF pick, new
<1>4. ASSUME NEW row \in pick, row.cost # NoPrice
      PROVE  row \in Upserts /\ ProviderOf[row.id] = p /\ row.id \in new.claimed
  BY <1>1, <1>3, <1>4 DEF Offers, Upserts
<1>5. ASSUME NEW u \in new.upserts
      PROVE  /\ u \in Upserts /\ ProviderOf[u.id] = p /\ u.id \in new.claimed
             /\ Stored(u.id) => rows[u.id].diamonds = u.diamonds
  <2>1. CASE u \in acc.upserts
    BY <1>0, <1>3, <2>1
  <2>2. CASE u \in pick /\ u.cost # NoPrice
    BY <1>1, <1>4, <2>2
  <2> QED BY <1>3, <2>1, <2>2
<1>6. ASSUME NEW u \in new.upserts, NEW v \in new.upserts, u.id = v.id PROVE u = v
  <2>2. CASE u \in acc.upserts /\ v \in acc.upserts
    BY <1>6, <2>2 DEF MapSound, OneEach
  <2>3. CASE u \in pick /\ v \in pick
    BY <1>2, <2>3
  <2> QED BY <1>0, <1>1, <1>3, <1>6, <2>2, <2>3
<1>7. OneEach(new.upserts)
  BY <1>6 DEF OneEach
<1> HIDE DEF fit, found
<1> QED BY <1>5, <1>7 DEF MapSound, new

\* The denominations in order: what was mapped before stands.
LEMMA MappedSound ==
  ASSUME NEW p \in Providers, NEW catalog \in Listed[p]
  PROVE  MapSound(p, Mapped(p, catalog))
<1> DEFINE L == Len(Denominations)
           sold == { id \in StoredOf(p) : rows[id].active }
           next(g, n) == IF n = 0 THEN NothingMapped
                         ELSE MapOne(catalog, sold, g[n - 1], Denominations[n])
           upTo == CHOOSE g : g = [ n \in 0..L |-> next(g, n) ]
<1>1. L \in Nat /\ catalog \in Seq(Offers(p)) /\ \A n \in 1..L : Denominations[n] \in DenominationSet
  BY SupplyAssumption, ListedAssumption DEF DenominationSet
<1>2. Mapped(p, catalog) = upTo[L]
  BY DEF Mapped
<1> HIDE DEF L, sold
<1>3. \E g : g = [ n \in 0..L |-> next(g, n) ]
  <2> DEFINE S == { m \in 0..L : \E g : g = [ n \in 0..m |-> next(g, n) ] }
  <2>1. 0 \in S
    <3> DEFINE g == [ n \in 0..0 |-> NothingMapped ]
    <3>1. g = [ n \in 0..0 |-> next(g, n) ]
      OBVIOUS
    <3> HIDE DEF g, next
    <3>2. 0 \in 0..L
      BY <1>1
    <3> QED BY <3>1, <3>2
  <2>2. ASSUME NEW m \in 0..L, m + 1 \in 0..L, m \in S PROVE m + 1 \in S
    <3>1. PICK g : g = [ n \in 0..m |-> next(g, n) ]
      BY <2>2
    <3> DEFINE h == [ n \in 0..(m + 1) |-> IF n \in 0..m THEN g[n]
                        ELSE MapOne(catalog, sold, g[m], Denominations[m + 1]) ]
    <3>2. ASSUME NEW n \in 0..(m + 1) PROVE h[n] = next(h, n)
      <4>1. CASE n \in 0..m
        <5>1. n # 0 => n - 1 \in 0..m /\ n - 1 \in 0..(m + 1)
          BY <4>1
        <5>2. g[n] = next(g, n)
          BY <3>1, <4>1
        <5> QED BY <4>1, <5>1, <5>2
      <4>2. CASE n = m + 1
        BY <4>2
      <4> QED BY <1>1, <4>1, <4>2
    <3>3. h = [ n \in 0..(m + 1) |-> next(h, n) ]
      BY <3>2
    <3> QED BY <2>2, <3>3
  <2> HIDE DEF next
  <2>3. S \in SUBSET (0..L)
    OBVIOUS
  <2>4. \A m \in 0..L : m + 1 \in 0..L /\ m \in S => m + 1 \in S
    BY <2>2
  <2>5. L \in S
    <3> HIDE DEF S
    <3>1. L \in Nat
      BY <1>1
    <3>2. \A n \in 0..L : n \in S
      BY ONLY <2>1, <2>3, <2>4, <3>1, LeastMissing
    <3> QED BY <3>1, <3>2
  <2> QED BY <2>5
<1>4. upTo = [ n \in 0..L |-> next(upTo, n) ]
  <2> HIDE DEF next
  <2> QED BY <1>3
<1> HIDE DEF upTo
<1> DEFINE Sound == { n \in 0..L : MapSound(p, upTo[n]) }
<1>5. 0 \in Sound
  BY <1>1, <1>4 DEF NothingMapped, MapSound, OneEach
<1>6. ASSUME NEW n \in 0..L, n + 1 \in 0..L, n \in Sound PROVE n + 1 \in Sound
  <2>1. upTo[n + 1] = MapOne(catalog, sold, upTo[n], Denominations[n + 1])
    BY <1>1, <1>4, <1>6
  <2>2. Denominations[n + 1] \in DenominationSet
    BY <1>1, <1>6
  <2> QED BY <1>1, <1>6, <2>1, <2>2, MapOneSound
<1>7. Sound \in SUBSET (0..L)
  OBVIOUS
<1>8. \A n \in 0..L : n + 1 \in 0..L /\ n \in Sound => n + 1 \in Sound
  BY <1>6
<1>9. L \in Sound
  <2> HIDE DEF Sound
  <2>1. L \in Nat
    BY <1>1
  <2>2. \A n \in 0..L : n \in Sound
    BY ONLY <1>5, <1>7, <1>8, <2>1, LeastMissing
  <2> QED BY <2>1, <2>2
<1> QED BY <1>2, <1>9

------------------------------------------------------------------------------
(* What the steps leave alone.                                             *)

LEMMA TaskKinds ==
  ASSUME TasksOK, NEW a \in Actors
  PROVE  /\ task[a].at \in SyncAts => task[a] \in SyncTasks
         /\ task[a].at \in SwitchAts => task[a] \in SwitchTasks
         /\ task[a].at = "save" => task[a] \in ReadTasks
         /\ task[a].at = "write" => task[a] \in WriteTasks
         /\ task[a].at = "persist" => task[a] \in BuyTasks
         /\ task[a] \in Tasks
<1>1. task[a] \in Tasks
  BY DEF TasksOK
<1> QED
  BY <1>1 DEF Tasks, Idle, SyncTasks, SwitchTasks, ReadTasks, WriteTasks, BuyTasks, SyncAts, SwitchAts

\* No id ever comes to mean another denomination.
RowsKept ==
  \A id \in Products : Stored(id) => Stored(id)' /\ rows'[id].diamonds = rows[id].diamonds

LEMMA RowsAlone == UNCHANGED rows => RowsKept
BY DEF RowsKept, Stored

LEMMA Frame ==
  ASSUME SupplyInv
  PROVE  /\ UNCHANGED rows => RowsOK'
         /\ RowsKept /\ UNCHANGED recipe => RecipeOK'
         /\ RowsKept /\ UNCHANGED items => ItemsOK'
         /\ UNCHANGED <<active, emergency, orderStatus, errors>> => SettingsOK'
         /\ UNCHANGED <<boundary, lock>> => LocksOK'
         /\ UNCHANGED <<job, boundary, lock, items>> => JobOK'
         /\ UNCHANGED <<task, boundary, lock>> => TasksOK'
<1>1. UNCHANGED rows => RowsOK'
  BY DEF SupplyInv, RowsOK
<1>2. RowsKept /\ UNCHANGED recipe => RecipeOK'
  BY DEF SupplyInv, RecipeOK, RowsKept, Points
<1>3. RowsKept /\ UNCHANGED items => ItemsOK'
  <2> SUFFICES ASSUME RowsKept, UNCHANGED items PROVE ItemsOK'
    OBVIOUS
  <2>1. \A o \in Orders : \A n \in DOMAIN items[o] : items[o][n].product \in Products
    BY DEF SupplyInv, ItemsOK, Line
  <2> QED BY <2>1 DEF SupplyInv, ItemsOK, RowsKept, Points
<1>4. UNCHANGED <<active, emergency, orderStatus, errors>> => SettingsOK'
  BY DEF SupplyInv, SettingsOK
<1>5. UNCHANGED <<boundary, lock>> => LocksOK'
  BY DEF SupplyInv, LocksOK
<1>6. UNCHANGED <<job, boundary, lock, items>> => JobOK'
  BY DEF SupplyInv, JobOK, Provider
<1>7. UNCHANGED <<task, boundary, lock>> => TasksOK'
  BY DEF SupplyInv, TasksOK, Guarded
<1> QED BY <1>1, <1>2, <1>3, <1>4, <1>5, <1>6, <1>7

\* What an actor holds goes on holding: the lock keeps other syncs from the
\* products of its provider, and nobody else writes the buyer's order.
LEMMA HoldKept ==
  ASSUME SupplyInv, RowsKept, NEW t \in Tasks, TaskHolds(t),
         t.at = "upsert" => \A id \in Products :
           ProviderOf[id] = t.provider /\ Stored(id)' => Stored(id),
         t.at = "persist" => items'[t.order] = items[t.order]
  PROVE  TaskHolds(t)'
<1>0. /\ t.at = "upsert" \/ t.at = "repoint" => t \in SyncTasks
      /\ t.at = "move" => t \in SwitchTasks
      /\ t.at = "write" => t \in WriteTasks
      /\ t.at = "persist" => t \in BuyTasks
  BY DEF Tasks, Idle, SyncTasks, SwitchTasks, ReadTasks, WriteTasks, BuyTasks, SyncAts, SwitchAts
<1>1. ASSUME NEW moves \in SUBSET MoveSet, Moving(moves) PROVE Moving(moves)'
  BY <1>1 DEF Moving, RowsKept, Points, MoveSet
<1>2. t.at = "repoint" => Moving(t.plan.moves)'
  BY <1>0, <1>1 DEF SyncTasks, Plans, TaskHolds
<1>3. t.at = "move" => Moving(t.moves)'
  BY <1>0, <1>1 DEF SwitchTasks, TaskHolds
<1>4. ASSUME t.at = "upsert" PROVE Upserting(t.provider, t.plan)'
  <2>1. /\ t.plan \in Plans /\ t.plan.upserts \subseteq Upserts /\ t.plan.moves \subseteq MoveSet
        /\ Upserting(t.provider, t.plan)
    BY <1>0, <1>4 DEF SyncTasks, Plans, TaskHolds
  <2>2. \A u \in t.plan.upserts : ProviderOf[u.id] = t.provider
                                  /\ (Stored(u.id)' => rows'[u.id].diamonds = u.diamonds)
    BY <1>4, <2>1 DEF Upserting, Upserts, RowsKept
  <2>3. \A m \in t.plan.moves : Stored(m.from)' /\ rows'[m.from].diamonds = rows[m.from].diamonds
    BY <2>1 DEF Upserting, MoveSet, RowsKept
  <2> QED BY <2>1, <2>2, <2>3 DEF Upserting
<1>5. t.at \in { "save", "write" } => \A n \in Places : t.line[n] = FirstDiamonds(n)
  BY DEF TaskHolds
<1>6. ASSUME NEW id \in Products, NEW d, Points(id, d) PROVE Points(id, d)'
  BY <1>6 DEF Points, RowsKept
<1>7. t.at = "write" => \A n \in Places : Points(t.found[n], FirstDiamonds(n))'
  <2> SUFFICES ASSUME t.at = "write", NEW n \in Places PROVE Points(t.found[n], FirstDiamonds(n))'
    OBVIOUS
  <2>1. t.found[n] \in Products /\ Points(t.found[n], FirstDiamonds(n))
    BY <1>0 DEF WriteTasks, TaskHolds
  <2> QED BY <2>1, <1>6
<1>8. t.at = "persist" => \A n \in Places : Points(t.line[n].product, t.line[n].diamonds)'
  <2> SUFFICES ASSUME t.at = "persist", NEW n \in Places
               PROVE  Points(t.line[n].product, t.line[n].diamonds)'
    OBVIOUS
  <2>1. t.line[n].product \in Products /\ Points(t.line[n].product, t.line[n].diamonds)
    BY <1>0 DEF BuyTasks, TaskHolds, Line
  <2> QED BY <2>1, <1>6
<1>9. t.at = "persist" => items'[t.order] = <<>>
  BY DEF TaskHolds
<1> HIDE DEF Places
<1> QED BY <1>2, <1>3, <1>4, <1>5, <1>7, <1>8, <1>9 DEF TaskHolds

\* An actor that is not stepping, whose locks and products are left alone.
Stays(a) ==
  /\ task'[a] = task[a]
  /\ a \in { "sweep", "cli" } =>
       /\ \A p \in Providers : lock[p] = a => lock'[p] = a
       /\ boundary = a => boundary' = a
       /\ task[a].at = "upsert" => \A id \in Products :
            ProviderOf[id] = task[a].provider /\ Stored(id)' => Stored(id)
  /\ a = "buyer" /\ task[a].at = "persist" => items'[task[a].order] = items[task[a].order]

LEMMA Staying ==
  ASSUME SupplyInv, RowsKept, task' \in [ Actors -> Tasks ],
         \A a \in Actors : Stays(a) \/ (Guarded(a)' /\ TaskHolds(task[a])')
  PROVE  TasksOK' /\ HoldsOK'
<1>1. ASSUME NEW a \in Actors, Stays(a) PROVE Guarded(a)' /\ TaskHolds(task[a])'
  <2>1. task[a] \in Tasks /\ Guarded(a) /\ TaskHolds(task[a])
    BY DEF SupplyInv, TasksOK, HoldsOK
  <2>2. task[a].at \in SyncAts => task[a].provider \in Providers
    BY TaskKinds DEF SupplyInv, SyncTasks
  <2>3. Guarded(a)'
    BY <1>1, <2>1, <2>2 DEF Guarded, Stays, SyncAts
  <2>4. PICK t : t = task[a]
    OBVIOUS
  <2>5. TaskHolds(t)'
    BY <1>1, <2>1, <2>4, HoldKept DEF Stays, Guarded, SyncAts
  <2>6. TaskHolds(task[a])'
    <3>1. task'[a] = t
      BY <1>1, <2>4 DEF Stays
    <3> QED BY <2>5, <3>1 DEF TaskHolds
  <2> QED BY <2>3, <2>6
<1> QED BY <1>1 DEF TasksOK, HoldsOK

LEMMA StaysAlone ==
  ASSUME UNCHANGED <<rows, items, boundary, lock>>, NEW a \in Actors, task'[a] = task[a]
  PROVE  Stays(a)
BY DEF Stays, Stored

\* Steps of one actor between two reads.
LEMMA OnlyTask ==
  ASSUME SupplyInv, UNCHANGED <<rows, items, job, boundary, lock>>,
         NEW b \in Actors, NEW f \in Tasks, task' = [task EXCEPT ![b] = f],
         f.at \notin SyncAts, f.at = "persist" => b = "buyer", TaskHolds(f)'
  PROVE  RowsOK' /\ ItemsOK' /\ LocksOK' /\ JobOK' /\ TasksOK' /\ HoldsOK'
<1>1. RowsKept
  BY RowsAlone
<1>2. RowsOK' /\ ItemsOK' /\ LocksOK' /\ JobOK'
  BY <1>1, Frame
<1>3. task' \in [ Actors -> Tasks ] /\ task'[b] = f /\ \A a \in Actors : a # b => task'[a] = task[a]
  BY DEF SupplyInv, TasksOK
<1>4. Guarded(b)' /\ TaskHolds(task[b])'
  BY <1>3 DEF Guarded, TaskHolds
<1>5. \A a \in Actors : Stays(a) \/ (Guarded(a)' /\ TaskHolds(task[a])')
  <2> SUFFICES ASSUME NEW a \in Actors PROVE Stays(a) \/ (Guarded(a)' /\ TaskHolds(task[a])')
    OBVIOUS
  <2>1. CASE a = b
    BY <1>4, <2>1
  <2>2. CASE a # b
    BY <1>3, <2>2, StaysAlone
  <2> QED BY <2>1, <2>2
<1> QED BY <1>1, <1>2, <1>3, <1>5, Staying

\* An actor that goes idle, or is about to do what needs nothing it has read.
LEMMA NothingHeld ==
  ASSUME NEW f, f.at \in { "idle", "switch", "set", "fall", "retire" }
  PROVE  TaskHolds(f)'
BY DEF TaskHolds

LEMMA SupplyInit == Init => SupplyInv
<1> SUFFICES ASSUME Init PROVE SupplyInv
  OBVIOUS
<1>1. /\ rows \in [ Products -> Stocks \cup {NoRow} ] /\ recipe = FirstRecipe
      /\ \A n \in Places : FirstRecipe[n] \in Products /\ rows[FirstRecipe[n]] \in Stocks
      /\ rows = FirstRows
  BY StockAssumption DEF Init, Places
<1>2. \A s \in Stocks : s # NoRow
  BY SupplyAssumption DEF Stocks, NoRow, DenominationSet
<1>3. RowsOK /\ SettingsOK /\ LocksOK /\ JobOK
  <2>1. RowsOK /\ LocksOK /\ JobOK
    BY <1>1 DEF Init, RowsOK, LocksOK, JobOK
  <2>2. active \in Providers /\ orderStatus \in [ Orders -> OrderStatuses ]
    BY DEF Init, Providers, OrderStatuses
  <2>3. emergency \in BOOLEAN
    BY DEF Init
  <2>4. errors \in [ Providers -> 0 .. ErrorThreshold - 1 ]
    BY SupplyAssumption DEF Init
  <2> QED BY <2>1, <2>2, <2>3, <2>4 DEF SettingsOK
<1>4. RecipeOK
  BY <1>1, <1>2, StockAssumption DEF RecipeOK, Points, Stored, FirstDiamonds, Places
<1>5. ItemsOK
  <2>1. ASSUME Placed # {} PROVE /\ Items(FirstRecipe) \in [ Places -> Line ]
                                 /\ \A n \in Places : /\ Items(FirstRecipe)[n].product = FirstRecipe[n]
                                                      /\ Items(FirstRecipe)[n].diamonds = rows[FirstRecipe[n]].diamonds
    BY <1>1, <2>1, StockAssumption DEF Items, Line, Stocks, Places, ItemStatuses
  <2>2. \A o \in Orders : items[o] = IF o \in Placed THEN Items(FirstRecipe) ELSE <<>>
    BY DEF Init
  <2>3. ASSUME NEW o \in Orders, NEW n \in DOMAIN items[o]
        PROVE  Points(items[o][n].product, items[o][n].diamonds)
    BY <1>1, <1>2, <2>1, <2>2 DEF Points, Stored
  <2>4. items \in [ Orders -> { <<>> } \cup [ Places -> Line ] ]
    BY <2>1, <2>2 DEF Init
  <2> QED BY <2>3, <2>4 DEF ItemsOK
<1>6. TasksOK /\ HoldsOK
  BY DEF Init, TasksOK, Guarded, HoldsOK, TaskHolds, Idle, Tasks, SyncAts
<1> QED BY <1>3, <1>4, <1>5, <1>6 DEF SupplyInv

------------------------------------------------------------------------------
(* Re-pointing, and what becomes of one item.                              *)

LEMMA MovedOne ==
  ASSUME NEW moves \in SUBSET MoveSet, NEW id, Moves(moves, id), Moving(moves)
  PROVE  /\ Moved(moves, id).to \in Products /\ Moved(moves, id).cost \in Nat
         /\ Points(Moved(moves, id).to, rows[id].diamonds)
<1>1. Moved(moves, id) \in moves /\ Moved(moves, id).from = id
  BY DEF Moves, Moved
<1> QED BY <1>1 DEF MoveSet, Moving

\* Everything re-pointed still means what it meant.
LEMMA Repointed ==
  ASSUME SupplyInv, NEW moves \in SUBSET MoveSet, Moving(moves), RepointProducts(moves),
         UNCHANGED rows
  PROVE  /\ RecipeOK' /\ ItemsOK'
         /\ \A o \in Orders : DOMAIN items'[o] = DOMAIN items[o]
         /\ \A o \in Orders : items[o] = <<>> => items'[o] = <<>>
<1>1. recipe \in [ Places -> Products ] /\ \A n \in Places : Points(recipe[n], FirstDiamonds(n))
  BY DEF SupplyInv, RecipeOK
<1> DEFINE old(n) == recipe[n]
           new(n) == IF Moves(moves, recipe[n]) THEN Moved(moves, recipe[n]).to ELSE recipe[n]
<1>2. ASSUME NEW n \in Places PROVE new(n) \in Products /\ Points(new(n), FirstDiamonds(n))
  BY <1>1, MovedOne DEF Points
<1>3. RecipeOK'
  <2>1. recipe' = [ n \in Places |-> new(n) ]
    BY <1>1 DEF RepointProducts
  <2> HIDE DEF new
  <2>2. \A n \in Places : recipe'[n] \in Products /\ Points(recipe'[n], FirstDiamonds(n))
    BY <1>2, <2>1
  <2>3. \A n \in Places : Points(recipe[n], FirstDiamonds(n))'
    BY <2>2 DEF Points, Stored
  <2> QED BY <2>1, <2>2, <2>3 DEF RecipeOK, FirstDiamonds
<1> DEFINE item(o, n) ==
             IF /\ items[o][n].status \in UnsentItem /\ orderStatus[o] \notin ClosedOrder
                /\ Moves(moves, items[o][n].product)
             THEN [items[o][n] EXCEPT !.product = Moved(moves, items[o][n].product).to,
                                      !.cost = Moved(moves, items[o][n].product).cost]
             ELSE items[o][n]
<1>4. items' = [ o \in Orders |-> [ n \in DOMAIN items[o] |-> item(o, n) ] ]
  BY DEF RepointProducts
<1>5. ASSUME NEW o \in Orders, NEW n \in DOMAIN items[o]
      PROVE  item(o, n) \in Line /\ Points(item(o, n).product, item(o, n).diamonds)
  <2>1. items[o][n] \in Line /\ Points(items[o][n].product, items[o][n].diamonds)
    BY DEF SupplyInv, ItemsOK
  <2>2. CASE Moves(moves, items[o][n].product)
    <3> DEFINE id == items[o][n].product
    <3>1. /\ Moved(moves, id).to \in Products /\ Moved(moves, id).cost \in Nat
          /\ Points(Moved(moves, id).to, rows[id].diamonds)
      BY <2>2, MovedOne
    <3>2. rows[id].diamonds = items[o][n].diamonds
      BY <2>1 DEF Points
    <3> QED BY <2>1, <3>1, <3>2 DEF Line
  <2>3. CASE ~ Moves(moves, items[o][n].product)
    BY <2>1, <2>3
  <2> QED BY <2>2, <2>3
<1> HIDE DEF item
<1>6. ASSUME NEW o \in Orders
      PROVE  /\ DOMAIN items'[o] = DOMAIN items[o]
             /\ items'[o] \in { <<>> } \cup [ Places -> Line ]
             /\ items[o] = <<>> => items'[o] = <<>>
             /\ \A n \in DOMAIN items[o] : items'[o][n] = item(o, n)
  <2>1. items'[o] = [ n \in DOMAIN items[o] |-> item(o, n) ]
    BY <1>4
  <2>2. items[o] \in { <<>> } \cup [ Places -> Line ]
    BY DEF SupplyInv, ItemsOK
  <2>3. items[o] = <<>> => items'[o] = <<>>
    BY <2>1
  <2>4. items[o] # <<>> => DOMAIN items[o] = Places
    BY <2>2
  <2> QED BY <1>5, <2>1, <2>2, <2>3, <2>4
<1>7. ItemsOK'
  <2>1. items' \in [ Orders -> { <<>> } \cup [ Places -> Line ] ]
    BY <1>4, <1>6
  <2>2. ASSUME NEW o \in Orders, NEW n \in DOMAIN items'[o]
        PROVE  Points(items[o][n].product, items[o][n].diamonds)'
    BY <1>5, <1>6 DEF Points, Stored
  <2> QED BY <2>1, <2>2 DEF ItemsOK
<1> QED BY <1>3, <1>6, <1>7

\* An item takes a status and stays what it is.
LEMMA ItemSettled ==
  ASSUME SupplyInv, NEW o \in Orders, NEW n \in DOMAIN items[o], NEW st \in ItemStatuses,
         items' = [items EXCEPT ![o][n].status = st], UNCHANGED rows
  PROVE  /\ ItemsOK'
         /\ \A q \in Orders : DOMAIN items'[q] = DOMAIN items[q]
         /\ \A q \in Orders : items[q] = <<>> => items'[q] = <<>>
         /\ \A q \in Orders : \A k \in DOMAIN items[q] :
              items'[q][k].product = items[q][k].product /\ items'[q][k].cost = items[q][k].cost
<1>1. /\ items \in [ Orders -> { <<>> } \cup [ Places -> Line ] ]
      /\ items[o] # <<>> /\ items[o] \in [ Places -> Line ] /\ n \in Places
  BY DEF SupplyInv, ItemsOK
<1>2. /\ items' = [items EXCEPT ![o] = [items[o] EXCEPT ![n] = [items[o][n] EXCEPT !.status = st]]]
      /\ [items[o][n] EXCEPT !.status = st] \in Line
      /\ [items[o][n] EXCEPT !.status = st].product = items[o][n].product
      /\ [items[o][n] EXCEPT !.status = st].cost = items[o][n].cost
      /\ [items[o][n] EXCEPT !.status = st].diamonds = items[o][n].diamonds
  BY <1>1 DEF Line
<1>3. /\ items' \in [ Orders -> { <<>> } \cup [ Places -> Line ] ]
      /\ items'[o] = [items[o] EXCEPT ![n] = [items[o][n] EXCEPT !.status = st]]
      /\ \A q \in Orders : q # o => items'[q] = items[q]
  BY <1>1, <1>2
<1>4. \A q \in Orders : DOMAIN items'[q] = DOMAIN items[q]
  BY <1>3
<1>5. \A q \in Orders : items[q] = <<>> => items'[q] = <<>>
  BY <1>1, <1>3
<1>6. ASSUME NEW q \in Orders, NEW k \in DOMAIN items[q]
      PROVE  /\ items'[q][k].product = items[q][k].product /\ items'[q][k].cost = items[q][k].cost
             /\ items'[q][k].diamonds = items[q][k].diamonds
  <2>1. CASE q = o
    <3>1. items'[o][k] = IF k = n THEN [items[o][n] EXCEPT !.status = st] ELSE items[o][k]
      BY <1>1, <1>3, <2>1
    <3> QED BY <1>2, <2>1, <3>1
  <2>2. CASE q # o
    BY <1>3, <2>2
  <2> QED BY <2>1, <2>2
<1>7. \A q \in Orders : \A k \in DOMAIN items'[q] : Points(items[q][k].product, items[q][k].diamonds)'
  BY <1>4, <1>6 DEF SupplyInv, ItemsOK, Points, Stored
<1> QED BY <1>3, <1>4, <1>5, <1>6, <1>7 DEF ItemsOK

------------------------------------------------------------------------------
(* The syncs.                                                              *)

LEMMA JobStands ==
  ASSUME SupplyInv, UNCHANGED job, \A o \in Orders : DOMAIN items'[o] = DOMAIN items[o],
         boundary = "worker" => boundary' = "worker",
         \A p \in Providers : lock[p] = "worker" => lock'[p] = "worker"
  PROVE  JobOK'
<1>1. CASE job = NoJob
  BY <1>1 DEF JobOK
<1>2. CASE job # NoJob
  <2>1. PICK D \in SUBSET Places : job \in Jobs(D)
    BY <1>2 DEF SupplyInv, JobOK
  <2>2. job.item \in DOMAIN job.held => Provider(job.item) \in Providers
    BY <2>1, SupplyAssumption DEF Jobs, Loads, Provider
  <2>3. job.order \in Orders
    BY <2>1 DEF Jobs
  <2>4. job' = job /\ \E E \in SUBSET Places : job' \in Jobs(E)
    BY <2>1
  <2>5. Provider(job.item)' = Provider(job.item)
    BY DEF Provider
  <2> QED BY <1>2, <2>2, <2>3, <2>4, <2>5 DEF SupplyInv, JobOK
<1> QED BY <1>1, <1>2

LEMMA PlanSound ==
  ASSUME NEW p \in Providers, NEW catalog \in Listed[p]
  PROVE  Plan(p, catalog) \in Plans /\ Upserting(p, Plan(p, catalog))
<1> DEFINE mapped == Mapped(p, catalog)
           plan == Plan(p, catalog)
<1>1. MapSound(p, mapped)
  BY MappedSound
<1> HIDE DEF mapped
<1>2. /\ plan = [ upserts |-> plan.upserts, moves |-> plan.moves, retire |-> plan.retire ]
      /\ plan.upserts = mapped.upserts
      /\ plan.moves = UNION { { Move(id, row.id, row.cost) :
                                  id \in { i \in StoredOf(p) \ {row.id} : rows[i].diamonds = row.diamonds } }
                                : row \in mapped.upserts }
      /\ plan.retire \subseteq StoredOf(p)
  BY DEF Plan, mapped
<1> HIDE DEF plan
<1>3. plan.upserts \in SUBSET Upserts /\ plan.retire \in SUBSET Products
  BY <1>1, <1>2 DEF MapSound, StoredOf
<1>4. ASSUME NEW m \in plan.moves
      PROVE  m \in MoveSet /\ Stored(m.from) /\ \E u \in plan.upserts :
                                m.to = u.id /\ rows[m.from].diamonds = u.diamonds
  <2>1. PICK u \in mapped.upserts :
          m \in { Move(id, u.id, u.cost) :
                    id \in { i \in StoredOf(p) \ {u.id} : rows[i].diamonds = u.diamonds } }
    BY <1>2, <1>4
  <2>2. PICK id \in StoredOf(p) : m = Move(id, u.id, u.cost) /\ rows[id].diamonds = u.diamonds
    BY <2>1
  <2>3. m.from = id /\ m.to = u.id /\ m \in MoveSet
    BY <1>2, <1>3, <2>1, <2>2 DEF Move, MoveSet, Upserts, StoredOf
  <2>4. Stored(id) /\ u \in plan.upserts
    BY <1>2, <2>1, <2>2 DEF StoredOf
  <2> QED BY <2>2, <2>3, <2>4
<1>5. plan.moves \in SUBSET MoveSet
  BY <1>4
<1>6. plan \in Plans
  BY <1>2, <1>3, <1>5 DEF Plans
<1>7. Upserting(p, plan)
  BY <1>1, <1>2, <1>4 DEF Upserting, MapSound
<1> QED BY <1>6, <1>7 DEF plan

LEMMA SyncStartsKeeps ==
  ASSUME SupplyInv, NEW b \in { "sweep", "cli" }, NEW p \in Providers, SyncStarts(b, p)
  PROVE  SupplyInv'
<1>1. /\ UNCHANGED <<rows, recipe, active, emergency, items, orderStatus, calls, job, errors>>
      /\ lock' = [lock EXCEPT ![p] = b] /\ lock[p] = None /\ (b = "sweep" => boundary = None)
      /\ boundary' = (IF b = "sweep" /\ boundary = None THEN b ELSE boundary)
  BY DEF SyncStarts, Free
<1>2. PICK catalog \in Listed[p] : task' = [task EXCEPT ![b] =
            [ at |-> IF Plan(p, catalog).upserts = {} THEN "retire" ELSE "upsert",
              provider |-> p, plan |-> Plan(p, catalog) ]]
  BY DEF SyncStarts
<1>3. PICK plan : plan = Plan(p, catalog)
  OBVIOUS
<1>4. plan \in Plans /\ Upserting(p, plan)
  BY <1>3, PlanSound
<1>5. PICK f : f = [ at |-> IF plan.upserts = {} THEN "retire" ELSE "upsert", provider |-> p, plan |-> plan ]
  OBVIOUS
<1>6. task' = [task EXCEPT ![b] = f] /\ f \in Tasks
  BY <1>2, <1>3, <1>4, <1>5 DEF Tasks, SyncTasks, SyncAts
<1>7. Upserting(p, plan)'
  BY <1>1, <1>4 DEF Upserting, Stored
<1>8. /\ b \in Actors /\ None \notin Actors /\ lock \in [ Providers -> Actors \cup {None} ]
      /\ boundary \in { "worker", "sweep", None }
  BY SupplyAssumption DEF Actors, SupplyInv, LocksOK
<1>9. LocksOK' /\ RowsKept
  BY <1>1, <1>8, RowsAlone DEF LocksOK, SupplyInv
<1>10. /\ task' \in [ Actors -> Tasks ] /\ task'[b] = f
       /\ \A a \in Actors : a # b => task'[a] = task[a]
  BY <1>6, <1>8 DEF SupplyInv, TasksOK
<1>11. Guarded(b)' /\ TaskHolds(task[b])'
  <2>1. f.provider = p /\ f.plan = plan /\ f.at \in { "retire", "upsert" }
    BY <1>5
  <2>2. lock'[p] = b /\ (b = "sweep" => boundary' = "sweep")
    BY <1>1, <1>8
  <2>3. Guarded(b)'
    BY <1>10, <2>1, <2>2 DEF Guarded
  <2>4. TaskHolds(f)'
    BY <1>7, <2>1 DEF TaskHolds
  <2>5. TaskHolds(task[b])'
    BY <1>10, <2>4 DEF TaskHolds
  <2> QED BY <2>3, <2>5
<1>12. ASSUME NEW a \in Actors, a # b PROVE Stays(a)
  BY <1>1, <1>8, <1>10, <1>12 DEF Stays, Stored
<1>13. TasksOK' /\ HoldsOK'
  BY <1>9, <1>10, <1>11, <1>12, Staying
<1>14. JobOK'
  BY <1>1, <1>8, JobStands DEF Actors
<1> QED BY <1>1, <1>9, <1>13, <1>14, Frame DEF SupplyInv

\* A sync that ends lets go of what it held, and of nothing else.
LEMMA SyncEnds ==
  ASSUME SupplyInv, NEW b \in { "sweep", "cli" }, Letting(b), task' = [task EXCEPT ![b] = Idle],
         RowsKept, \A id \in Products : Stored(id)' => Stored(id), UNCHANGED <<items, job>>
  PROVE  LocksOK' /\ JobOK' /\ TasksOK' /\ HoldsOK'
<1>1. /\ b \in Actors /\ None \notin Actors /\ b # "worker"
      /\ lock \in [ Providers -> Actors \cup {None} ] /\ boundary \in { "worker", "sweep", None }
  BY SupplyAssumption DEF Actors, SupplyInv, LocksOK
<1>2. /\ boundary' = (IF boundary = b THEN None ELSE boundary)
      /\ lock' = [ p \in Providers |-> IF lock[p] = b THEN None ELSE lock[p] ]
  BY DEF Letting
<1>3. LocksOK'
  BY <1>1, <1>2 DEF LocksOK
<1>4. JobOK'
  BY <1>1, <1>2, JobStands
<1>5. /\ task' \in [ Actors -> Tasks ] /\ task'[b] = Idle
      /\ \A a \in Actors : a # b => task'[a] = task[a]
  BY <1>1 DEF SupplyInv, TasksOK, Tasks
<1>6. Guarded(b)' /\ TaskHolds(task[b])'
  BY <1>5 DEF Guarded, TaskHolds, Idle, SyncAts
<1>7. ASSUME NEW a \in Actors, a # b PROVE Stays(a)
  BY <1>1, <1>2, <1>5, <1>7 DEF Stays
<1> QED BY <1>3, <1>4, <1>5, <1>6, <1>7, Staying

LEMMA SyncThrowsKeeps ==
  ASSUME SupplyInv, NEW b \in { "sweep", "cli" }, SyncThrows(b)
  PROVE  SupplyInv'
<1>1. /\ UNCHANGED <<rows, recipe, active, emergency, items, orderStatus, calls, job, errors>>
      /\ task' = [task EXCEPT ![b] = Idle] /\ Letting(b)
  BY DEF SyncThrows
<1>2. RowsKept /\ \A id \in Products : Stored(id)' => Stored(id)
  BY <1>1, RowsAlone DEF Stored
<1>3. LocksOK' /\ JobOK' /\ TasksOK' /\ HoldsOK'
  BY <1>1, <1>2, SyncEnds
<1> QED BY <1>1, <1>2, <1>3, Frame DEF SupplyInv

LEMMA SyncRetiresKeeps ==
  ASSUME SupplyInv, NEW b \in { "sweep", "cli" }, SyncRetires(b)
  PROVE  SupplyInv'
<1>1. /\ UNCHANGED <<recipe, active, emergency, items, orderStatus, calls, job, errors>>
      /\ task' = [task EXCEPT ![b] = Idle] /\ Letting(b)
  BY DEF SyncRetires
<1> DEFINE row(id) == IF id \in task[b].plan.retire THEN [rows[id] EXCEPT !.active = FALSE] ELSE rows[id]
<1>2. rows' = [ id \in Products |-> row(id) ]
  BY DEF SyncRetires
<1>3. ASSUME NEW id \in Products
      PROVE  /\ row(id) \in Stocks \cup {NoRow}
             /\ row(id) = NoRow <=> rows[id] = NoRow
             /\ row(id).diamonds = rows[id].diamonds
  <2>1. rows[id] \in Stocks \cup {NoRow}
    BY DEF SupplyInv, RowsOK
  <2>2. CASE rows[id] = NoRow
    <3>1. [NoRow EXCEPT !.active = FALSE] = NoRow
      <4>1. NoRow = [ k \in { "diamonds", "kind", "cost", "active" } |-> NoRow[k] ]
        BY DEF NoRow
      <4>2. PICK r : r = NoRow
        OBVIOUS
      <4>3. r = [ k \in { "diamonds", "kind", "cost", "active" } |-> r[k] ] /\ r["active"] = FALSE
        BY <4>1, <4>2 DEF NoRow
      <4>4. [r EXCEPT !["active"] = FALSE] = r
        BY <4>3
      <4> QED BY <4>2, <4>4
    <3> QED BY <2>2, <3>1
  <2>3. CASE rows[id] \in Stocks
    <3>1. 0 \notin DenominationSet
      BY SupplyAssumption DEF DenominationSet
    <3>2. /\ [rows[id] EXCEPT !.active = FALSE] \in Stocks
          /\ [rows[id] EXCEPT !.active = FALSE].diamonds = rows[id].diamonds
          /\ rows[id].diamonds # 0
      BY <2>3, <3>1 DEF Stocks
    <3>3. NoRow.diamonds = 0
      BY DEF NoRow
    <3> QED BY <2>3, <3>2, <3>3
  <2> QED BY <2>1, <2>2, <2>3
<1> HIDE DEF row
<1>4. RowsOK'
  BY <1>2, <1>3 DEF RowsOK
<1>5. \A id \in Products : Stored(id)' <=> Stored(id)
  BY <1>2, <1>3 DEF Stored
<1>6. RowsKept
  BY <1>2, <1>3, <1>5 DEF RowsKept
<1>7. LocksOK' /\ JobOK' /\ TasksOK' /\ HoldsOK'
  BY <1>1, <1>5, <1>6, SyncEnds
<1> QED BY <1>1, <1>4, <1>6, <1>7, Frame DEF SupplyInv

\* One actor moves on, keeping the locks as they are.
LEMMA OneActs ==
  ASSUME SupplyInv, RowsKept, UNCHANGED <<boundary, lock>>,
         NEW b \in Actors, NEW f \in Tasks, task' = [task EXCEPT ![b] = f], TaskHolds(f)',
         f.at \in SyncAts => task[b].at \in SyncAts /\ f.provider = task[b].provider,
         f.at = "persist" => b = "buyer",
         \A a \in Actors \ {b} : Stays(a)
  PROVE  TasksOK' /\ HoldsOK'
<1>1. task' \in [ Actors -> Tasks ] /\ task'[b] = f
  BY DEF SupplyInv, TasksOK
<1>2. Guarded(b)
  BY DEF SupplyInv, TasksOK
<1>3. Guarded(b)' /\ TaskHolds(task[b])'
  BY <1>1, <1>2 DEF Guarded, TaskHolds
<1> QED BY <1>1, <1>3, Staying

LEMMA SyncUpsertsKeeps ==
  ASSUME SupplyInv, NEW b \in { "sweep", "cli" }, SyncUpserts(b)
  PROVE  SupplyInv'
<1>1. /\ UNCHANGED <<recipe, active, emergency, items, orderStatus, calls, job, errors, boundary, lock>>
      /\ task[b].at = "upsert" /\ task' = [task EXCEPT ![b].at = "repoint"]
  BY DEF SyncUpserts
<1>2. b \in Actors /\ task[b] \in SyncTasks /\ lock[task[b].provider] = b
  BY <1>1, TaskKinds DEF Actors, SupplyInv, TasksOK, Guarded, SyncAts
<1> DEFINE p == task[b].provider
           plan == task[b].plan
           upserts == plan.upserts
<1>3. p \in Providers /\ plan \in Plans /\ upserts \in SUBSET Upserts /\ plan.moves \in SUBSET MoveSet
  BY <1>2 DEF SyncTasks, Plans
<1>4. Upserting(p, plan)
  BY <1>1, <1>2 DEF SupplyInv, HoldsOK, TaskHolds
<1> HIDE DEF p, plan, upserts
<1> DEFINE chosen(id) == CHOOSE r \in upserts : r.id = id
           stock(id) == [ diamonds |-> chosen(id).diamonds, kind |-> chosen(id).kind,
                          cost |-> chosen(id).cost, active |-> TRUE ]
<1>5. /\ \A id \in Products : (\E row \in upserts : row.id = id) => rows'[id] = stock(id)
      /\ \A id \in Products : (\A row \in upserts : row.id # id) => rows'[id] = rows[id]
      /\ rows' = [ id \in Products |-> rows'[id] ]
  BY DEF SyncUpserts, upserts, plan
<1>6. ASSUME NEW u \in upserts
      PROVE  /\ u.id \in Products /\ ProviderOf[u.id] = p /\ rows'[u.id] \in Stocks
             /\ rows'[u.id].diamonds = u.diamonds /\ rows'[u.id] # NoRow
             /\ Stored(u.id) => rows[u.id].diamonds = u.diamonds
  <2>1. chosen(u.id) = u
    BY <1>4 DEF Upserting, OneEach, upserts
  <2>2. u \in Upserts
    BY <1>3
  <2>3. /\ ProviderOf[u.id] = p
        /\ Stored(u.id) => rows[u.id].diamonds = u.diamonds
    BY <1>4 DEF Upserting, upserts
  <2>4. rows'[u.id] = stock(u.id) /\ u.id \in Products
    BY <1>5, <2>2 DEF Upserts
  <2>5. rows'[u.id] = [ diamonds |-> u.diamonds, kind |-> u.kind, cost |-> u.cost, active |-> TRUE ]
    BY <2>1, <2>4
  <2>6. rows'[u.id] \in Stocks /\ rows'[u.id].diamonds = u.diamonds
    BY <2>2, <2>5 DEF Upserts, Stocks
  <2>7. \A s \in Stocks : s # NoRow
    BY SupplyAssumption DEF Stocks, NoRow, DenominationSet
  <2> QED BY <2>3, <2>4, <2>6, <2>7
<1> HIDE DEF stock
<1>7. RowsOK'
  <2>1. \A id \in Products : rows'[id] \in Stocks \cup {NoRow}
    BY <1>5, <1>6 DEF SupplyInv, RowsOK
  <2> QED BY <1>5, <2>1 DEF RowsOK
<1>8. RowsKept
  <2> SUFFICES ASSUME NEW id \in Products, Stored(id)
               PROVE  Stored(id)' /\ rows'[id].diamonds = rows[id].diamonds
    BY DEF RowsKept
  <2>1. CASE \E row \in upserts : row.id = id
    BY <1>6, <2>1 DEF Stored
  <2>2. CASE \A row \in upserts : row.id # id
    BY <1>5, <2>2 DEF Stored
  <2> QED BY <2>1, <2>2
<1>9. \A m \in plan.moves : Stored(m.from)' /\ Points(m.to, rows[m.from].diamonds)'
  <2> SUFFICES ASSUME NEW m \in plan.moves
               PROVE  Stored(m.from)' /\ Points(m.to, rows[m.from].diamonds)'
    OBVIOUS
  <2>1. Stored(m.from) /\ m.from \in Products
    BY <1>3, <1>4 DEF Upserting, MoveSet
  <2>2. PICK u \in upserts : m.to = u.id /\ rows[m.from].diamonds = u.diamonds
    BY <1>4 DEF Upserting, upserts
  <2>3. Stored(m.from)' /\ rows'[m.from].diamonds = u.diamonds
    BY <1>8, <2>1, <2>2 DEF RowsKept
  <2> QED BY <1>6, <2>2, <2>3 DEF Points, Stored
<1>10. PICK f : f = [task[b] EXCEPT !.at = "repoint"]
  OBVIOUS
<1>11. f \in Tasks /\ f.at = "repoint" /\ f.provider = p /\ f.plan = plan
  BY <1>2, <1>10 DEF Tasks, SyncTasks, SyncAts, p, plan
<1>12. task' = [task EXCEPT ![b] = f]
  BY <1>1, <1>10
<1>13. TaskHolds(f)'
  BY <1>9, <1>11 DEF TaskHolds, Moving
<1>14. ASSUME NEW a \in Actors \ {b} PROVE Stays(a)
  <2>1. task'[a] = task[a]
    BY <1>12 DEF SupplyInv, TasksOK
  <2>2. ASSUME task[a].at = "upsert", NEW id \in Products, ProviderOf[id] = task[a].provider
        PROVE  rows'[id] = rows[id]
    <3>1. lock[task[a].provider] = a
      BY <2>2 DEF SupplyInv, TasksOK, Guarded, SyncAts
    <3>2. task[a].provider # p
      BY <1>2, <3>1 DEF p
    <3> QED BY <1>5, <1>6, <2>2, <3>2
  <2> QED BY <1>1, <2>1, <2>2 DEF Stays, Stored
<1>15. TasksOK' /\ HoldsOK'
  <2>1. f.at \in SyncAts => task[b].at \in SyncAts /\ f.provider = task[b].provider
    BY <1>1, <1>11 DEF SyncAts, p
  <2> QED BY <1>1, <1>2, <1>8, <1>11, <1>12, <1>13, <1>14, <2>1, OneActs
<1> QED BY <1>1, <1>7, <1>8, <1>15, Frame DEF SupplyInv

LEMMA SyncRepointsKeeps ==
  ASSUME SupplyInv, NEW b \in { "sweep", "cli" }, SyncRepoints(b)
  PROVE  SupplyInv'
<1>1. /\ UNCHANGED <<rows, active, emergency, orderStatus, calls, job, errors, boundary, lock>>
      /\ task[b].at = "repoint" /\ task' = [task EXCEPT ![b].at = "retire"]
      /\ RepointProducts(task[b].plan.moves)
  BY DEF SyncRepoints
<1>2. b \in Actors /\ task[b] \in SyncTasks
  BY <1>1, TaskKinds DEF Actors, SupplyInv, SyncAts
<1>3. task[b].plan.moves \in SUBSET MoveSet /\ Moving(task[b].plan.moves)
  BY <1>1, <1>2 DEF SyncTasks, Plans, SupplyInv, HoldsOK, TaskHolds
<1>4. /\ RecipeOK' /\ ItemsOK'
      /\ \A o \in Orders : DOMAIN items'[o] = DOMAIN items[o]
      /\ \A o \in Orders : items[o] = <<>> => items'[o] = <<>>
  BY <1>1, <1>3, Repointed
<1>5. RowsKept
  BY <1>1, RowsAlone
<1>6. PICK f : f = [task[b] EXCEPT !.at = "retire"]
  OBVIOUS
<1>7. f \in Tasks /\ f.at = "retire" /\ f.provider = task[b].provider
  BY <1>2, <1>6 DEF Tasks, SyncTasks, SyncAts
<1>8. task' = [task EXCEPT ![b] = f]
  BY <1>1, <1>6
<1>9. ASSUME NEW a \in Actors \ {b} PROVE Stays(a)
  <2>1. task'[a] = task[a]
    BY <1>8 DEF SupplyInv, TasksOK
  <2>2. a = "buyer" /\ task[a].at = "persist" => items'[task[a].order] = items[task[a].order]
    <3>1. task[a].at = "persist" => task[a].order \in Orders /\ items[task[a].order] = <<>>
      BY TaskKinds DEF SupplyInv, HoldsOK, TaskHolds, BuyTasks
    <3> QED BY <1>4, <3>1
  <2> QED BY <1>1, <2>1, <2>2 DEF Stays, Stored
<1>10. TaskHolds(f)'
  BY <1>7, NothingHeld
<1>11. TasksOK' /\ HoldsOK'
  <2>1. f.at \in SyncAts => task[b].at \in SyncAts /\ f.provider = task[b].provider
    BY <1>1, <1>7 DEF SyncAts
  <2> QED BY <1>1, <1>2, <1>5, <1>7, <1>8, <1>9, <1>10, <2>1, OneActs
<1>12. JobOK'
  BY <1>1, <1>4, JobStands
<1> QED BY <1>1, <1>4, <1>5, <1>11, <1>12, Frame DEF SupplyInv

------------------------------------------------------------------------------
(* The switches, the panel and the buyer.                                  *)

SwitchActors == { "worker", "sweep", "admin" }

LEMMA SwitchReadsKeeps ==
  ASSUME SupplyInv, NEW b \in SwitchActors, SwitchReads(b)
  PROVE  SupplyInv'
<1>1. /\ task[b].at = "switch"
      /\ UNCHANGED <<rows, recipe, active, emergency, items, orderStatus, calls, job, errors,
                     boundary, lock>>
  BY DEF SwitchReads
<1> DEFINE t == task[b].target
           both == { d \in Used : Ready(t, d) # {} }
<1>2. PICK now \in Picks(both, InUse), next \in Picks(both, LAMBDA d : Ready(t, d)) :
        LET switched == { d \in both : now[d] # next[d] }
            moves == { Move(now[d], next[d], rows[next[d]].cost) : d \in switched }
        IN task' = [task EXCEPT ![b] =
             IF switched # {} THEN [task[b] EXCEPT !.at = "move", !.moves = moves]
             ELSE IF both = {} /\ b # "admin" THEN [task[b] EXCEPT !.at = "fall"]
             ELSE Idle]
  BY DEF SwitchReads
<1>3. b \in Actors /\ task[b] \in SwitchTasks
  BY <1>1, TaskKinds DEF SwitchActors, Actors, SwitchAts, SupplyInv
<1> DEFINE switched == { d \in both : now[d] # next[d] }
<1>4. PICK moves : moves = { Move(now[d], next[d], rows[next[d]].cost) : d \in switched }
  OBVIOUS
<1>5. ASSUME NEW d \in both
      PROVE  /\ now[d] \in Products /\ rows[now[d]].diamonds = d /\ Stored(now[d])
             /\ next[d] \in Products /\ rows[next[d]].diamonds = d /\ Stored(next[d])
             /\ rows[next[d]].cost \in Nat
  <2>1. now[d] \in InUse(d) /\ next[d] \in Ready(t, d)
    BY <1>2 DEF Picks
  <2>2. PICK n \in Places : now[d] = recipe[n]
    BY <2>1 DEF InUse, ToSet, SupplyInv, RecipeOK
  <2>3. now[d] \in Products /\ rows[now[d]].diamonds = d /\ Stored(now[d])
    BY <2>1, <2>2 DEF InUse, SupplyInv, RecipeOK, Points
  <2>4. /\ next[d] \in Products /\ rows[next[d]].diamonds = d /\ Stored(next[d])
        /\ rows[next[d]].cost # NoPrice
    BY <2>1 DEF Ready, StoredOf, Sells
  <2>5. rows[next[d]].cost \in Nat
    BY <2>4 DEF SupplyInv, RowsOK, Stocks, Stored
  <2> QED BY <2>3, <2>4, <2>5
<1> HIDE DEF t, both
<1>6. moves \in SUBSET MoveSet /\ Moving(moves)
  <2> SUFFICES ASSUME NEW m \in moves
               PROVE  m \in MoveSet /\ Stored(m.from) /\ Points(m.to, rows[m.from].diamonds)
    BY DEF Moving
  <2>1. PICK d \in both : m = Move(now[d], next[d], rows[next[d]].cost)
    BY <1>4
  <2>2. m.from = now[d] /\ m.to = next[d] /\ m \in MoveSet
    BY <1>5, <2>1 DEF Move, MoveSet
  <2> QED BY <1>5, <2>2 DEF Points
<1>7. PICK f : f = IF switched # {} THEN [task[b] EXCEPT !.at = "move", !.moves = moves]
                   ELSE IF both = {} /\ b # "admin" THEN [task[b] EXCEPT !.at = "fall"]
                   ELSE Idle
  OBVIOUS
<1>8. task' = [task EXCEPT ![b] = f]
  BY <1>2, <1>4, <1>7 DEF both, t
<1> HIDE DEF switched
<1>9. /\ f \in Tasks /\ f.at \in { "move", "fall", "idle" }
      /\ f.at = "move" => f.moves = moves
  <2>1. f = [task[b] EXCEPT !.at = "move", !.moves = moves] => f \in SwitchTasks /\ f.at = "move" /\ f.moves = moves
    BY <1>3, <1>6 DEF SwitchTasks, SwitchAts
  <2>2. f = [task[b] EXCEPT !.at = "fall"] => f \in SwitchTasks /\ f.at = "fall"
    BY <1>3 DEF SwitchTasks, SwitchAts
  <2>3. f = Idle => f \in Tasks /\ f.at = "idle"
    BY DEF Idle, Tasks
  <2> QED BY <1>7, <2>1, <2>2, <2>3 DEF Tasks
<1>10. TaskHolds(f)'
  <2>1. Moving(moves)'
    BY <1>1, <1>6 DEF Moving, Points, Stored
  <2> QED BY <1>9, <2>1 DEF TaskHolds
<1>11. RowsOK' /\ ItemsOK' /\ LocksOK' /\ JobOK' /\ TasksOK' /\ HoldsOK'
  BY <1>1, <1>3, <1>8, <1>9, <1>10, OnlyTask DEF SyncAts
<1> QED BY <1>1, <1>11, RowsAlone, Frame DEF SupplyInv

LEMMA SwitchMovesKeeps ==
  ASSUME SupplyInv, NEW b \in SwitchActors, SwitchMoves(b)
  PROVE  SupplyInv'
<1>1. /\ UNCHANGED <<rows, active, emergency, orderStatus, calls, job, errors, boundary, lock>>
      /\ task[b].at = "move" /\ task' = [task EXCEPT ![b].at = "set"]
      /\ RepointProducts(task[b].moves)
  BY DEF SwitchMoves
<1>2. b \in Actors /\ task[b] \in SwitchTasks
  BY <1>1, TaskKinds DEF Actors, SwitchActors, SupplyInv, SwitchAts
<1>3. task[b].moves \in SUBSET MoveSet /\ Moving(task[b].moves)
  BY <1>1, <1>2 DEF SwitchTasks, SupplyInv, HoldsOK, TaskHolds
<1>4. /\ RecipeOK' /\ ItemsOK'
      /\ \A o \in Orders : DOMAIN items'[o] = DOMAIN items[o]
      /\ \A o \in Orders : items[o] = <<>> => items'[o] = <<>>
  BY <1>1, <1>3, Repointed
<1>5. RowsKept
  BY <1>1, RowsAlone
<1>6. PICK f : f = [task[b] EXCEPT !.at = "set"]
  OBVIOUS
<1>7. f \in Tasks /\ f.at = "set"
  BY <1>2, <1>6 DEF Tasks, SwitchTasks, SwitchAts
<1>8. task' = [task EXCEPT ![b] = f]
  BY <1>1, <1>6
<1>9. ASSUME NEW a \in Actors \ {b} PROVE Stays(a)
  <2>1. task'[a] = task[a]
    BY <1>8 DEF SupplyInv, TasksOK
  <2>2. a = "buyer" /\ task[a].at = "persist" => items'[task[a].order] = items[task[a].order]
    <3>1. task[a].at = "persist" => task[a].order \in Orders /\ items[task[a].order] = <<>>
      BY TaskKinds DEF SupplyInv, HoldsOK, TaskHolds, BuyTasks
    <3> QED BY <1>4, <3>1
  <2> QED BY <1>1, <2>1, <2>2 DEF Stays, Stored
<1>10. TaskHolds(f)'
  BY <1>7, NothingHeld
<1>11. TasksOK' /\ HoldsOK'
  <2>1. f.at \notin SyncAts
    BY <1>7 DEF SyncAts
  <2> QED BY <1>1, <1>2, <1>5, <1>7, <1>8, <1>9, <1>10, <2>1, OneActs
<1>12. JobOK'
  BY <1>1, <1>4, JobStands
<1> QED BY <1>1, <1>4, <1>5, <1>11, <1>12, Frame DEF SupplyInv

\* The steps that set the provider or the mode, and those that start or give up.
LEMMA SettingsKeep ==
  ASSUME SupplyInv, NEW b \in Actors, NEW f \in Tasks, task' = [task EXCEPT ![b] = f],
         f.at \in { "idle", "switch", "fall" },
         UNCHANGED <<rows, recipe, items, orderStatus, job, errors, boundary, lock>>,
         active' \in Providers, emergency' \in BOOLEAN
  PROVE  SupplyInv'
<1>1. TaskHolds(f)'
  BY NothingHeld
<1>2. RowsOK' /\ ItemsOK' /\ LocksOK' /\ JobOK' /\ TasksOK' /\ HoldsOK'
  BY <1>1, OnlyTask DEF SyncAts
<1>3. SettingsOK'
  BY DEF SupplyInv, SettingsOK
<1> QED BY <1>2, <1>3, RowsAlone, Frame DEF SupplyInv

LEMMA SwitchStepKeeps ==
  ASSUME SupplyInv, SwitchStep
  PROVE  SupplyInv'
<1>1. ASSUME NEW b \in SwitchActors, SetActiveProvider(b) PROVE SupplyInv'
  <2>1. b \in Actors /\ task[b] \in SwitchTasks
    BY <1>1, TaskKinds DEF SetActiveProvider, Actors, SwitchActors, SupplyInv, SwitchAts
  <2>2. Idle \in Tasks /\ Idle.at = "idle"
    BY DEF Tasks, Idle
  <2> QED BY <1>1, <2>1, <2>2, SettingsKeep DEF SetActiveProvider, SwitchTasks, SupplyInv, SettingsOK
<1>2. ASSUME NEW b \in SwitchActors, SwitchThrows(b) PROVE SupplyInv'
  <2>1. b \in Actors /\ task[b] \in SwitchTasks
    BY <1>2, TaskKinds DEF SwitchThrows, Actors, SwitchActors, SupplyInv, SwitchAts
  <2>2. PICK f : f = IF b = "admin" THEN Idle ELSE [task[b] EXCEPT !.at = "fall"]
    OBVIOUS
  <2>3. f \in Tasks /\ f.at \in { "idle", "fall" }
    BY <2>1, <2>2 DEF Tasks, Idle, SwitchTasks, SwitchAts
  <2>4. task' = [task EXCEPT ![b] = f]
    BY <1>2, <2>2 DEF SwitchThrows
  <2> QED BY <1>2, <2>1, <2>3, <2>4, SettingsKeep DEF SwitchThrows, SupplyInv, SettingsOK
<1>3. ASSUME NEW b \in SwitchActors, FallBackToEmergencyMode(b) PROVE SupplyInv'
  <2>1. Idle \in Tasks /\ Idle.at = "idle" /\ b \in Actors
    BY DEF Tasks, Idle, SwitchActors, Actors
  <2> QED BY <1>3, <2>1, SettingsKeep DEF FallBackToEmergencyMode, SupplyInv, SettingsOK
<1>4. ASSUME NEW p \in Providers
      PROVE  /\ Trigger(p) \in Tasks /\ Trigger(p).at \in { "switch", "fall" }
             /\ Switch(p) \in Tasks /\ Switch(p).at = "switch"
  BY DEF Trigger, Switch, Tasks, SwitchTasks, SwitchAts, Providers
<1>5. ASSUME NEW p \in Providers, WalletSweepFails(p) PROVE SupplyInv'
  <2>1. "sweep" \in Actors
    BY DEF Actors
  <2> QED BY <1>4, <1>5, <2>1, SettingsKeep DEF WalletSweepFails, SupplyInv, SettingsOK
<1>6. ASSUME NEW p \in Providers, SetActiveProviderAction(p) PROVE SupplyInv'
  <2>1. "admin" \in Actors
    BY DEF Actors
  <2> QED BY <1>4, <1>6, <2>1, SettingsKeep DEF SetActiveProviderAction, SupplyInv, SettingsOK
<1>7. ASSUME SetEmergencyModeAction PROVE SupplyInv'
  <2>1. UNCHANGED <<rows, recipe, active, items, orderStatus, calls, job, errors, boundary, lock, task>>
        /\ emergency' \in BOOLEAN
    BY <1>7 DEF SetEmergencyModeAction
  <2>2. SettingsOK'
    BY <2>1 DEF SupplyInv, SettingsOK
  <2>3. TasksOK' /\ HoldsOK'
    BY <2>1, RowsAlone, StaysAlone, Staying DEF SupplyInv, TasksOK
  <2> QED BY <2>1, <2>2, <2>3, RowsAlone, Frame DEF SupplyInv
<1> QED BY <1>1, <1>2, <1>3, <1>5, <1>6, <1>7, SwitchReadsKeeps, SwitchMovesKeeps DEF SwitchStep, SwitchActors

\* An actor reads, and nothing else happens.
LEMMA ReadingKeeps ==
  ASSUME SupplyInv, NEW b \in Actors, NEW f \in Tasks, task' = [task EXCEPT ![b] = f],
         f.at \notin SyncAts, f.at = "persist" => b = "buyer", TaskHolds(f)',
         UNCHANGED <<rows, recipe, active, emergency, items, orderStatus, job, errors, boundary, lock>>
  PROVE  SupplyInv'
<1>1. RowsOK' /\ ItemsOK' /\ LocksOK' /\ JobOK' /\ TasksOK' /\ HoldsOK'
  BY OnlyTask
<1> QED BY <1>1, RowsAlone, Frame DEF SupplyInv

LEMMA SaveReadsKeeps ==
  ASSUME SupplyInv, SaveReads
  PROVE  SupplyInv'
<1>1. UNCHANGED <<rows, recipe, active, emergency, items, orderStatus, calls, job, errors, boundary, lock>>
  BY DEF SaveReads
<1>2. PICK f : f = [ at |-> "save", provider |-> active,
                     line |-> [ n \in DOMAIN recipe |-> rows[recipe[n]].diamonds ], found |-> <<>> ]
  OBVIOUS
<1>3. task' = [task EXCEPT !["admin"] = f] /\ "admin" \in Actors
  BY <1>2 DEF SaveReads, Actors
<1>4. recipe \in [ Places -> Products ] /\ \A n \in Places : Points(recipe[n], FirstDiamonds(n))
  BY DEF SupplyInv, RecipeOK
<1>5. ASSUME NEW n \in Places
      PROVE  rows[recipe[n]].diamonds \in Nat /\ rows[recipe[n]].diamonds = FirstDiamonds(n)
  <2>1. rows[recipe[n]] \in Stocks /\ rows[recipe[n]].diamonds = FirstDiamonds(n)
    BY <1>4 DEF Points, Stored, SupplyInv, RowsOK
  <2> QED BY <2>1, SupplyAssumption DEF Stocks, DenominationSet
<1>6. f \in ReadTasks /\ \A n \in Places : f.line[n] = FirstDiamonds(n)
  BY <1>2, <1>4, <1>5 DEF ReadTasks, SupplyInv, SettingsOK
<1>7. f \in Tasks /\ f.at = "save"
  BY <1>6 DEF Tasks, ReadTasks
<1>8. TaskHolds(f)'
  BY <1>6, <1>7 DEF TaskHolds, FirstDiamonds
<1> QED BY <1>1, <1>3, <1>7, <1>8, ReadingKeeps DEF SyncAts

LEMMA SaveProductsKeeps ==
  ASSUME SupplyInv, SaveProducts
  PROVE  SupplyInv'
<1>1. /\ UNCHANGED <<rows, recipe, active, emergency, items, orderStatus, calls, job, errors, boundary, lock>>
      /\ task["admin"].at = "save" /\ "admin" \in Actors
  BY DEF SaveProducts, Actors
<1> DEFINE line == task["admin"].line
           Found(d) == { id \in StoredOf(task["admin"].provider) : Sells(id, d) }
<1>2. task["admin"] \in ReadTasks /\ \A n \in Places : line[n] = FirstDiamonds(n)
  BY <1>1, TaskKinds DEF SupplyInv, HoldsOK, TaskHolds
<1>3. CASE task' = [task EXCEPT !["admin"] = Idle]
  <2>1. Idle \in Tasks /\ Idle.at = "idle"
    BY DEF Idle, Tasks
  <2>2. TaskHolds(Idle)'
    BY <2>1, NothingHeld
  <2> QED BY <1>1, <1>3, <2>1, <2>2, ReadingKeeps DEF SyncAts
<1>4. CASE \E found \in [ ToSet(line) -> Products ] :
             /\ \A d \in ToSet(line) : found[d] \in Found(d)
             /\ task' = [task EXCEPT !["admin"] = [@ EXCEPT !.at = "write",
                           !.found = [ n \in DOMAIN line |-> found[line[n]] ]]]
  <2>1. PICK found \in [ ToSet(line) -> Products ] :
             /\ \A d \in ToSet(line) : found[d] \in Found(d)
             /\ task' = [task EXCEPT !["admin"] = [task["admin"] EXCEPT !.at = "write",
                           !.found = [ n \in DOMAIN line |-> found[line[n]] ]]]
    BY <1>4
  <2>2. PICK g : g = [ n \in DOMAIN line |-> found[line[n]] ]
    OBVIOUS
  <2>3. DOMAIN line = Places
    BY <1>2 DEF ReadTasks
  <2>4. ASSUME NEW n \in Places PROVE g[n] \in Products /\ Points(g[n], FirstDiamonds(n))
    <3>1. line[n] \in ToSet(line) /\ g[n] = found[line[n]]
      BY <2>2, <2>3 DEF ToSet
    <3>2. g[n] \in Products /\ g[n] \in Found(line[n])
      BY <2>1, <3>1
    <3> QED BY <1>2, <3>2 DEF StoredOf, Sells, Points
  <2>5. PICK f : f = [task["admin"] EXCEPT !.at = "write", !.found = g]
    OBVIOUS
  <2>6. g \in [ Places -> Products ]
    BY <2>2, <2>3, <2>4
  <2>7. f \in WriteTasks /\ f.at = "write" /\ f.line = line /\ f.found = g
    BY <1>2, <2>5, <2>6 DEF ReadTasks, WriteTasks
  <2>8. task' = [task EXCEPT !["admin"] = f]
    BY <2>1, <2>2, <2>5
  <2>9. \A n \in Places : Points(g[n], FirstDiamonds(n))'
    BY <1>1, <2>4 DEF Points, Stored, FirstDiamonds
  <2>10. TaskHolds(f)'
    BY <1>2, <2>7, <2>9 DEF TaskHolds, FirstDiamonds
  <2> QED BY <1>1, <2>7, <2>8, <2>10, ReadingKeeps DEF SyncAts, Tasks
<1> QED BY <1>3, <1>4 DEF SaveProducts

LEMMA SaveComboKeeps ==
  ASSUME SupplyInv, SaveCombo
  PROVE  SupplyInv'
<1>1. /\ UNCHANGED <<rows, active, emergency, items, orderStatus, calls, job, errors, boundary, lock>>
      /\ task["admin"].at = "write" /\ "admin" \in Actors
      /\ recipe' = task["admin"].found /\ task' = [task EXCEPT !["admin"] = Idle]
  BY DEF SaveCombo, Actors
<1>2. /\ task["admin"] \in WriteTasks
      /\ \A n \in Places : Points(task["admin"].found[n], FirstDiamonds(n))
  BY <1>1, TaskKinds DEF SupplyInv, HoldsOK, TaskHolds
<1>3. RecipeOK'
  BY <1>1, <1>2 DEF RecipeOK, WriteTasks, Points, Stored, FirstDiamonds
<1>4. Idle \in Tasks /\ Idle.at = "idle"
  BY DEF Idle, Tasks
<1>5. TaskHolds(Idle)'
  BY <1>4, NothingHeld
<1>6. RowsOK' /\ ItemsOK' /\ LocksOK' /\ JobOK' /\ TasksOK' /\ HoldsOK'
  BY <1>1, <1>4, <1>5, OnlyTask DEF SyncAts
<1> QED BY <1>1, <1>3, <1>6, Frame DEF SupplyInv

\* A line of a recipe on sale is a line of an order.
LEMMA FindComboKeeps ==
  ASSUME SupplyInv, NEW o \in Orders, FindComboForOrder(o)
  PROVE  SupplyInv'
<1>1. /\ UNCHANGED <<rows, recipe, active, emergency, items, orderStatus, calls, job, errors, boundary, lock>>
      /\ items[o] = <<>> /\ "buyer" \in Actors
      /\ \A n \in DOMAIN recipe : rows[recipe[n]].active /\ rows[recipe[n]].cost # NoPrice
      /\ task' = [task EXCEPT !["buyer"] = [ at |-> "persist", order |-> o, line |-> Items(recipe) ]]
  BY DEF FindComboForOrder, Actors
<1>2. recipe \in [ Places -> Products ] /\ \A n \in Places : Points(recipe[n], FirstDiamonds(n))
  BY DEF SupplyInv, RecipeOK
<1>3. PICK line : line = Items(recipe)
  OBVIOUS
<1>4. ASSUME NEW n \in Places
      PROVE  line[n] \in Line /\ Points(line[n].product, line[n].diamonds)
  <2>1. rows[recipe[n]] \in Stocks /\ Stored(recipe[n]) /\ rows[recipe[n]].cost \in Nat
    BY <1>1, <1>2 DEF Points, Stored, SupplyInv, RowsOK, Stocks
  <2>2. line[n] = [ diamonds |-> rows[recipe[n]].diamonds, product |-> recipe[n],
                    cost |-> rows[recipe[n]].cost, status |-> "queued" ]
    BY <1>2, <1>3 DEF Items
  <2> QED BY <1>2, <2>1, <2>2 DEF Line, Stocks, ItemStatuses, Points
<1>5. line \in [ Places -> Line ]
  <2>1. line = [ n \in Places |-> line[n] ]
    BY <1>2, <1>3 DEF Items
  <2> QED BY <1>4, <2>1
<1>6. PICK f : f = [ at |-> "persist", order |-> o, line |-> line ]
  OBVIOUS
<1>7. f \in Tasks /\ f.at = "persist" /\ f.order = o /\ f.line = line
  BY <1>5, <1>6 DEF Tasks, BuyTasks
<1>8. \A n \in Places : Points(line[n].product, line[n].diamonds)'
  BY <1>1, <1>4 DEF Points, Stored
<1>9. TaskHolds(f)'
  BY <1>1, <1>7, <1>8 DEF TaskHolds
<1>10. task' = [task EXCEPT !["buyer"] = f]
  BY <1>1, <1>3, <1>6
<1> QED BY <1>1, <1>7, <1>9, <1>10, ReadingKeeps DEF SyncAts

LEMMA PersistKeeps ==
  ASSUME SupplyInv, PersistOrder
  PROVE  SupplyInv'
<1>1. /\ UNCHANGED <<rows, recipe, active, emergency, orderStatus, calls, job, errors, boundary, lock>>
      /\ task["buyer"].at = "persist" /\ "buyer" \in Actors
      /\ items' = [items EXCEPT ![task["buyer"].order] = task["buyer"].line]
      /\ task' = [task EXCEPT !["buyer"] = Idle]
  BY DEF PersistOrder, Actors
<1>2. /\ task["buyer"] \in BuyTasks /\ TaskHolds(task["buyer"])
  BY <1>1, TaskKinds DEF SupplyInv, HoldsOK
<1> DEFINE o == task["buyer"].order
           line == task["buyer"].line
<1>3. /\ o \in Orders /\ line \in [ Places -> Line ] /\ items[o] = <<>>
      /\ \A n \in Places : Points(line[n].product, line[n].diamonds)
  BY <1>1, <1>2 DEF BuyTasks, TaskHolds
<1>4. items' = [items EXCEPT ![o] = line] /\ items \in [ Orders -> { <<>> } \cup [ Places -> Line ] ]
  BY <1>1 DEF SupplyInv, ItemsOK
<1> HIDE DEF o, line
<1>5. ItemsOK'
  <2>1. items' \in [ Orders -> { <<>> } \cup [ Places -> Line ] ]
    BY <1>3, <1>4
  <2>2. ASSUME NEW q \in Orders, NEW n \in DOMAIN items'[q]
        PROVE  Points(items[q][n].product, items[q][n].diamonds)'
    BY <1>1, <1>3, <1>4, <2>2 DEF SupplyInv, ItemsOK, Points, Stored
  <2> QED BY <2>1, <2>2 DEF ItemsOK
<1>6. Idle \in Tasks /\ Idle.at = "idle"
  BY DEF Idle, Tasks
<1>7. TaskHolds(Idle)'
  BY <1>6, NothingHeld
<1>8. ASSUME NEW a \in Actors \ {"buyer"} PROVE Stays(a)
  <2>1. task'[a] = task[a]
    BY <1>1 DEF SupplyInv, TasksOK
  <2> QED BY <1>1, <2>1 DEF Stays, Stored
<1>9. TasksOK' /\ HoldsOK'
  <2>1. Idle.at \notin SyncAts /\ Idle.at # "persist"
    BY <1>6 DEF SyncAts
  <2>2. RowsKept
    BY <1>1, RowsAlone
  <2> QED BY <1>1, <1>6, <1>7, <1>8, <2>1, <2>2, OneActs
<1>10. JobOK'
  <2>1. CASE job = NoJob
    BY <1>1, <2>1 DEF JobOK
  <2>2. CASE job # NoJob
    <3>1. PICK D \in SUBSET Places : job \in Jobs(D)
      BY <2>2 DEF SupplyInv, JobOK
    <3>2. DOMAIN job.held \subseteq DOMAIN items'[job.order]
      BY <1>3, <1>4, <2>2, <3>1 DEF SupplyInv, JobOK, Jobs
    <3>3. \E E \in SUBSET Places : job' \in Jobs(E)
      BY <1>1, <3>1
    <3> QED BY <1>1, <2>2, <3>2, <3>3 DEF SupplyInv, JobOK, Provider
  <2> QED BY <2>1, <2>2
<1> QED BY <1>1, <1>5, <1>9, <1>10, RowsAlone, Frame DEF SupplyInv

\* An order changes status and nothing else moves.
LEMMA StatusKeeps ==
  ASSUME SupplyInv, NEW o \in Orders, NEW st \in OrderStatuses,
         orderStatus' = [orderStatus EXCEPT ![o] = st],
         UNCHANGED <<rows, recipe, active, emergency, items, job, errors, boundary, lock, task>>
  PROVE  SupplyInv'
<1>1. SettingsOK'
  BY DEF SupplyInv, SettingsOK
<1>2. TasksOK' /\ HoldsOK'
  BY RowsAlone, StaysAlone, Staying DEF SupplyInv, TasksOK
<1> QED BY <1>1, <1>2, RowsAlone, Frame DEF SupplyInv

------------------------------------------------------------------------------
(* The worker.                                                             *)

LEMMA JobFacts ==
  ASSUME SupplyInv, job # NoJob
  PROVE  /\ job \in Jobs(DOMAIN job.held) /\ job.order \in Orders /\ boundary = "worker"
         /\ DOMAIN job.held \subseteq Places /\ DOMAIN job.held \subseteq DOMAIN items[job.order]
         /\ \A n \in DOMAIN job.held :
              job.held[n] \in Loads /\ Provider(n) \in Providers /\ n \in Nat
         /\ job.at \in { "out", "judge" } =>
              job.item \in DOMAIN job.held /\ lock[Provider(job.item)] = "worker"
<1>1. PICK D \in SUBSET Places : job \in Jobs(D)
  BY DEF SupplyInv, JobOK
<1>2. DOMAIN job.held = D
  BY <1>1 DEF Jobs
<1>3. \A n \in Places : n \in Nat
  BY StockAssumption DEF Places
<1>4. \A n \in DOMAIN job.held : job.held[n] \in Loads /\ Provider(n) \in Providers
  BY <1>1, <1>2, SupplyAssumption DEF Jobs, Loads, Provider
<1> QED BY <1>1, <1>2, <1>3, <1>4 DEF SupplyInv, JobOK, Jobs

LEMMA JobMade ==
  ASSUME NEW j, NEW D \in SUBSET Places, j \in Jobs(D), job' = j, boundary' = "worker",
         D \subseteq DOMAIN items'[j.order],
         j.at \in { "out", "judge" } =>
           j.item \in D /\ lock'[ProviderOf[j.held[j.item].product]] = "worker"
  PROVE  JobOK'
<1>1. DOMAIN j.held = D
  BY DEF Jobs
<1> QED BY <1>1 DEF JobOK, Provider

\* The worker acts under its own locks: nobody else's work is disturbed.
LEMMA WorkerActs ==
  ASSUME SupplyInv, UNCHANGED <<rows, recipe>>,
         \A o \in Orders : items[o] = <<>> => items'[o] = <<>>,
         \A a \in { "sweep", "cli" } : /\ \A p \in Providers : lock[p] = a => lock'[p] = a
                                       /\ boundary = a => boundary' = a,
         task' \in [ Actors -> Tasks ], \A a \in Actors \ {"worker"} : task'[a] = task[a],
         \/ task'["worker"] = task["worker"]
         \/ task'["worker"].at \in { "idle", "switch", "fall" }
  PROVE  RowsOK' /\ RecipeOK' /\ TasksOK' /\ HoldsOK'
<1>1. RowsKept /\ RowsOK' /\ RecipeOK'
  BY RowsAlone, Frame
<1>2. ASSUME NEW a \in Actors, task'[a] = task[a] PROVE Stays(a)
  <2>1. task[a].at = "persist" => task[a].order \in Orders /\ items[task[a].order] = <<>>
    BY TaskKinds DEF SupplyInv, HoldsOK, TaskHolds, BuyTasks
  <2> QED BY <1>2, <2>1 DEF Stays, Stored
<1>3. ASSUME task'["worker"].at \in { "idle", "switch", "fall" }
      PROVE  Guarded("worker")' /\ TaskHolds(task["worker"])'
  BY <1>3 DEF Guarded, TaskHolds, SyncAts
<1> QED BY <1>1, <1>2, <1>3, Staying

\* The worker lets its order go, with the boundary and the locks it had.
LEMMA WorkerLetsGo ==
  ASSUME SupplyInv, job # NoJob, WorkerEnds, UNCHANGED <<rows, recipe, items, task>>
  PROVE  RowsOK' /\ RecipeOK' /\ ItemsOK' /\ LocksOK' /\ JobOK' /\ TasksOK' /\ HoldsOK'
<1>1. /\ job' = NoJob /\ boundary' = None /\ boundary = "worker"
      /\ lock' = [ p \in Providers |-> IF lock[p] = "worker" THEN None ELSE lock[p] ]
  BY JobFacts DEF WorkerEnds
<1>2. LocksOK' /\ JobOK'
  BY <1>1 DEF SupplyInv, LocksOK, JobOK
<1>3. RowsOK' /\ RecipeOK' /\ TasksOK' /\ HoldsOK'
  BY <1>1, WorkerActs DEF SupplyInv, TasksOK
<1> QED BY <1>2, <1>3, RowsAlone, Frame

LEMMA LoadOrderKeeps ==
  ASSUME SupplyInv, NEW o \in Orders, LoadOrder(o)
  PROVE  SupplyInv'
<1> DEFINE D == { k \in DOMAIN items[o] : /\ items[o][k].status \in UnsentItem
                                          /\ Len(calls[o][k]) < MaxAttempts }
           load(n) == [ product |-> items[o][n].product, cost |-> items[o][n].cost,
                        active |-> rows[items[o][n].product].active ]
<1>1. /\ UNCHANGED <<rows, recipe, active, emergency, items, calls, errors, lock, task, left>>
      /\ boundary = None /\ boundary' = "worker"
      /\ orderStatus' = [orderStatus EXCEPT ![o] = "processing"]
      /\ job' = [ order |-> o, at |-> "next", item |-> 0, held |-> [ n \in D |-> load(n) ] ]
  BY DEF LoadOrder
<1>2. D \in SUBSET Places
  BY DEF SupplyInv, ItemsOK
<1>3. ASSUME NEW n \in D PROVE load(n) \in Loads
  <2>1. items[o][n] \in Line /\ Points(items[o][n].product, items[o][n].diamonds)
    BY DEF SupplyInv, ItemsOK
  <2>2. rows[items[o][n].product] \in Stocks
    BY <2>1 DEF Points, Stored, SupplyInv, RowsOK, Line
  <2> QED BY <2>1, <2>2 DEF Loads, Line, Stocks
<1>4. D \subseteq DOMAIN items[o]
  OBVIOUS
<1> HIDE DEF D, load
<1>5. PICK j : j = [ order |-> o, at |-> "next", item |-> 0, held |-> [ n \in D |-> load(n) ] ]
  OBVIOUS
<1>6. j \in Jobs(D) /\ j.at = "next" /\ j.order = o
  BY <1>3, <1>5 DEF Jobs
<1>7. JobOK'
  BY <1>1, <1>2, <1>4, <1>5, <1>6, JobMade
<1>8. SettingsOK'
  BY <1>1 DEF SupplyInv, SettingsOK, OrderStatuses
<1>9. LocksOK'
  BY <1>1 DEF SupplyInv, LocksOK, Actors
<1>10. RowsOK' /\ RecipeOK' /\ TasksOK' /\ HoldsOK'
  <2>1. None # "sweep" /\ None # "cli"
    BY SupplyAssumption DEF Actors
  <2> QED BY <1>1, <2>1, WorkerActs DEF SupplyInv, TasksOK
<1> QED BY <1>1, <1>7, <1>8, <1>9, <1>10, RowsAlone, Frame DEF SupplyInv

\* An order given up by an exception, or finished.
LEMMA OrderEnds ==
  ASSUME SupplyInv,
         \/ \E n \in Places : RefuseInactive(n)
         \/ \E answer \in HttpAnswers : AnswerThrows(answer)
         \/ ThrowsOn \/ Finish
  PROVE  SupplyInv'
<1>1. /\ job # NoJob /\ WorkerEnds
      /\ UNCHANGED <<rows, recipe, active, emergency, items, calls, errors, task, left>>
  BY DEF RefuseInactive, AnswerThrows, ThrowsOn, Finish, Working
<1>2. RowsOK' /\ RecipeOK' /\ ItemsOK' /\ LocksOK' /\ JobOK' /\ TasksOK' /\ HoldsOK'
  BY <1>1, WorkerLetsGo
<1>3. ASSUME Finish PROVE orderStatus' \in [ Orders -> OrderStatuses ]
  <2>1. DeriveOrderStatus(View(job.order), MaxAttempts) \in OrderStatuses
    BY DEF DeriveOrderStatus, OrderStatuses
  <2>2. "needs_review" \in OrderStatuses
    BY DEF OrderStatuses
  <2> QED BY <1>3, <2>1, <2>2 DEF Finish, SupplyInv, SettingsOK
<1>4. orderStatus' \in [ Orders -> OrderStatuses ]
  BY <1>3 DEF RefuseInactive, AnswerThrows, ThrowsOn, SupplyInv, SettingsOK
<1>5. SettingsOK'
  BY <1>1, <1>4 DEF SupplyInv, SettingsOK
<1> QED BY <1>2, <1>5 DEF SupplyInv

LEMMA TriggerTask ==
  ASSUME SupplyInv, NEW p \in Providers, task' = [task EXCEPT !["worker"] = Trigger(p)]
  PROVE  /\ task' \in [ Actors -> Tasks ] /\ \A a \in Actors \ {"worker"} : task'[a] = task[a]
         /\ task'["worker"].at \in { "idle", "switch", "fall" }
<1>1. Trigger(p) \in Tasks /\ Trigger(p).at \in { "switch", "fall" }
  BY DEF Trigger, Switch, Tasks, SwitchTasks, SwitchAts, Providers
<1>2. "worker" \in Actors
  BY DEF Actors
<1> QED BY <1>1, <1>2 DEF SupplyInv, TasksOK

LEMMA BalanceFailsKeeps ==
  ASSUME SupplyInv, NEW n \in Places, BalanceFails(n)
  PROVE  SupplyInv'
<1>1. /\ job # NoJob /\ job' = [job EXCEPT !.at = "throw"]
      /\ task' = [task EXCEPT !["worker"] = Trigger(Provider(n))]
      /\ NextItem(n) \/ (job.at = "judge" /\ n = job.item)
      /\ UNCHANGED <<rows, recipe, active, emergency, items, orderStatus, calls, errors, boundary, lock>>
  BY DEF BalanceFails, Working
<1>2. n \in DOMAIN job.held
  BY <1>1, JobFacts DEF NextItem
<1>3. Provider(n) \in Providers
  BY <1>1, <1>2, JobFacts
<1>4. PICK p : p = Provider(n)
  OBVIOUS
<1>5. /\ task' \in [ Actors -> Tasks ] /\ \A a \in Actors \ {"worker"} : task'[a] = task[a]
      /\ task'["worker"].at \in { "idle", "switch", "fall" }
  BY <1>1, <1>3, <1>4, TriggerTask
<1>6. RowsOK' /\ RecipeOK' /\ TasksOK' /\ HoldsOK'
  BY <1>1, <1>5, WorkerActs
<1>7. JobOK'
  <2>1. PICK j, D : j = [job EXCEPT !.at = "throw"] /\ D = DOMAIN job.held
    OBVIOUS
  <2>2. j \in Jobs(D) /\ j.at = "throw" /\ j.order = job.order
    BY <1>1, <2>1, JobFacts DEF Jobs
  <2> QED BY <1>1, <2>1, <2>2, JobFacts, JobMade
<1> QED BY <1>1, <1>6, <1>7, RowsAlone, Frame DEF SupplyInv

LEMMA PurchaseKeeps ==
  ASSUME SupplyInv, NEW n \in Places, Purchase(n)
  PROVE  SupplyInv'
<1>1. /\ job # NoJob /\ n \in DOMAIN job.held
      /\ job' = [job EXCEPT !.at = "out", !.item = n]
      /\ lock[Provider(n)] = None /\ lock' = [lock EXCEPT ![Provider(n)] = "worker"]
      /\ items' = [items EXCEPT ![job.order][n].status = "sending"]
      /\ UNCHANGED <<rows, recipe, active, emergency, orderStatus, errors, boundary, task, left>>
  BY DEF Purchase, Working, NextItem, Status
<1>2. /\ job.order \in Orders /\ n \in DOMAIN items[job.order] /\ Provider(n) \in Providers
      /\ boundary = "worker" /\ n \in Nat
  BY <1>1, JobFacts
<1>3. /\ ItemsOK' /\ \A o \in Orders : DOMAIN items'[o] = DOMAIN items[o]
      /\ \A o \in Orders : items[o] = <<>> => items'[o] = <<>>
  <2>1. PICK o : o = job.order
    OBVIOUS
  <2>2. "sending" \in ItemStatuses
    BY DEF ItemStatuses
  <2> QED BY <1>1, <1>2, <2>1, <2>2, ItemSettled
<1>4. LocksOK' /\ \A p \in Providers : lock[p] # None => lock'[p] = lock[p]
  BY <1>1, <1>2 DEF SupplyInv, LocksOK, Actors
<1>5. RowsOK' /\ RecipeOK' /\ TasksOK' /\ HoldsOK'
  <2>1. None # "sweep" /\ None # "cli"
    BY SupplyAssumption DEF Actors
  <2> QED BY <1>1, <1>3, <1>4, <2>1, WorkerActs DEF SupplyInv, TasksOK
<1>6. JobOK'
  <2>1. PICK j, D : j = [job EXCEPT !.at = "out", !.item = n] /\ D = DOMAIN job.held
    OBVIOUS
  <2>2. j \in Jobs(D) /\ j.order = job.order /\ j.held = job.held /\ j.item = n
    BY <1>1, <1>2, <2>1, JobFacts DEF Jobs
  <2>3. lock'[ProviderOf[j.held[j.item].product]] = "worker"
    BY <1>1, <1>2, <2>2 DEF Provider, SupplyInv, LocksOK
  <2> QED BY <1>1, <1>2, <1>3, <2>1, <2>2, <2>3, JobFacts, JobMade, ZenonT(30)
<1> QED BY <1>1, <1>3, <1>4, <1>5, <1>6, Frame DEF SupplyInv

\* The call is over: its lock is let go, and the item leaves the worker's hands.
LEMMA ItemDone ==
  ASSUME SupplyInv, job # NoJob, job.at \in { "out", "judge" }, NEW st \in ItemStatuses,
         Status(job.item, st), lock' = Unlocked, job' = Rest \/ job' = [Rest EXCEPT !.at = "halted"],
         UNCHANGED <<rows, recipe, boundary, task>>
  PROVE  RowsOK' /\ RecipeOK' /\ ItemsOK' /\ LocksOK' /\ JobOK' /\ TasksOK' /\ HoldsOK'
<1> DEFINE n == job.item
<1>1. /\ job.order \in Orders /\ n \in DOMAIN job.held /\ n \in DOMAIN items[job.order]
      /\ Provider(n) \in Providers /\ lock[Provider(n)] = "worker" /\ boundary = "worker"
  BY JobFacts
<1>2. /\ ItemsOK' /\ \A o \in Orders : DOMAIN items'[o] = DOMAIN items[o]
      /\ \A o \in Orders : items[o] = <<>> => items'[o] = <<>>
  <2>1. PICK o, k : o = job.order /\ k = job.item
    OBVIOUS
  <2>2. items' = [items EXCEPT ![o][k].status = st]
    BY <2>1 DEF Status
  <2> QED BY <1>1, <2>1, <2>2, ItemSettled
<1>3. lock' = [lock EXCEPT ![Provider(n)] = None]
  BY DEF Unlocked
<1>4. LocksOK' /\ \A p \in Providers : lock[p] # "worker" => lock'[p] = lock[p]
  BY <1>1, <1>3 DEF SupplyInv, LocksOK
<1>5. RowsOK' /\ RecipeOK' /\ TasksOK' /\ HoldsOK'
  BY <1>1, <1>2, <1>4, WorkerActs DEF SupplyInv, TasksOK
<1>6. JobOK'
  <2>1. PICK D : D = DOMAIN job.held \ {n}
    OBVIOUS
  <2>2. PICK j : j = job'
    OBVIOUS
  <2>3. \/ j = [job EXCEPT !.held = [ k \in D |-> job.held[k] ], !.item = 0, !.at = "next"]
        \/ j = [job EXCEPT !.held = [ k \in D |-> job.held[k] ], !.item = 0, !.at = "halted"]
    <3>1. Rest = [job EXCEPT !.held = [ k \in D |-> job.held[k] ], !.item = 0, !.at = "next"]
      BY <2>1 DEF Rest
    <3>2. [Rest EXCEPT !.at = "halted"] =
             [job EXCEPT !.held = [ k \in D |-> job.held[k] ], !.item = 0, !.at = "halted"]
      BY <3>1, JobFacts DEF Jobs
    <3> QED BY <2>2, <3>1, <3>2
  <2>4. j \in Jobs(D) /\ j.at \in { "next", "halted" } /\ j.order = job.order
    <3>1. PICK held : held = [ k \in D |-> job.held[k] ]
      OBVIOUS
    <3>2. held \in [ D -> Loads ]
      BY <2>1, <3>1, JobFacts
    <3>3. \/ j = [job EXCEPT !.held = held, !.item = 0, !.at = "next"]
          \/ j = [job EXCEPT !.held = held, !.item = 0, !.at = "halted"]
      BY <2>3, <3>1
    <3>4. job \in Jobs(DOMAIN job.held)
      BY JobFacts
    <3>5. j.order = job.order /\ j.item = 0 /\ j.held = held /\ j.at \in { "next", "halted" }
      BY <3>3, <3>4 DEF Jobs
    <3>6. j = [ order |-> j.order, at |-> j.at, held |-> j.held, item |-> j.item ]
      BY <3>3, <3>4 DEF Jobs
    <3>7. j.order \in Orders
      BY <3>5, JobFacts
    <3> QED BY <3>2, <3>5, <3>6, <3>7 DEF Jobs
  <2> QED BY <1>1, <1>2, <2>1, <2>2, <2>4, JobFacts, JobMade
<1> QED BY <1>2, <1>4, <1>5, <1>6

LEMMA AnsweredStatus ==
  ASSUME SupplyInv, NEW answer, Answered(answer)
  PROVE  \E st \in ItemStatuses : Status(job.item, st)
<1>1. Outcome(answer).kind \notin { "ambiguous", "thrown" }
  BY DEF Answered
<1>2. PICK st : /\ Status(job.item, st)
                /\ st = CASE Outcome(answer).kind = "pending" -> "provider_pending"
                          [] Outcome(answer).kind = "delivered_as_code" -> "unknown"
                          [] OTHER -> Outcome(answer).kind
  BY DEF Answered
<1> DEFINE kinds == { "ambiguous", "failed", "succeeded", "pending", "delivered_as_code", "thrown" }
<1>3. Outcome(answer).kind \in kinds
  <2>1. /\ \A b \in BOOLEAN : Failed(b).kind = "failed"
        /\ \A r : Ambiguous(r).kind = "ambiguous"
        /\ Succeeded.kind = "succeeded" /\ Pending.kind = "pending"
        /\ AsCode.kind = "delivered_as_code" /\ Thrown.kind = "thrown"
    BY DEF Failed, Ambiguous, Succeeded, Pending, AsCode, Thrown
  <2>2. /\ (answer.code # "INVALID_PRODUCT_TYPE") \in BOOLEAN
        /\ (answer.code \in { "insufficient_balance", "insufficient_stock", "rate_limited" }) \in BOOLEAN
    OBVIOUS
  <2>3. RaFailure(answer).kind \in { "ambiguous", "failed" }
    BY <2>1, <2>2 DEF RaFailure
  <2>4. CoFailure(answer).kind \in { "ambiguous", "failed" }
    BY <2>1, <2>2 DEF CoFailure
  <2>5. RaPurchase(answer).kind \in kinds
    BY <2>1, <2>3 DEF RaPurchase
  <2>6. CoPurchase(answer).kind \in kinds
    BY <2>1, <2>4 DEF CoPurchase
  <2> QED BY <2>5, <2>6 DEF Outcome
<1>4. st \in ItemStatuses
  BY <1>1, <1>2, <1>3 DEF ItemStatuses
<1> QED BY <1>2, <1>4

LEMMA AnsweredKeeps ==
  ASSUME SupplyInv, NEW answer, Answered(answer)
  PROVE  SupplyInv'
<1>1. /\ job # NoJob /\ job.at = "out" /\ lock' = Unlocked
      /\ job' = Rest \/ job' = [Rest EXCEPT !.at = "halted"]
      /\ errors' = [errors EXCEPT ![Provider(job.item)] = 0]
      /\ UNCHANGED <<rows, recipe, active, emergency, orderStatus, boundary, task>>
  BY DEF Answered, Working
<1>2. PICK st \in ItemStatuses : Status(job.item, st)
  BY AnsweredStatus
<1>3. RowsOK' /\ RecipeOK' /\ ItemsOK' /\ LocksOK' /\ JobOK' /\ TasksOK' /\ HoldsOK'
  BY <1>1, <1>2, ItemDone
<1>4. SettingsOK'
  <2>1. 0 \in 0 .. ErrorThreshold - 1
    BY SupplyAssumption
  <2> QED BY <1>1, <2>1 DEF SupplyInv, SettingsOK
<1> QED BY <1>3, <1>4 DEF SupplyInv

LEMMA JudgedKeeps ==
  ASSUME SupplyInv, NEW verdict \in { "succeeded", "failed", "unknown" }, Judged(verdict)
  PROVE  SupplyInv'
<1>1. /\ job # NoJob /\ job.at = "judge" /\ lock' = Unlocked /\ Status(job.item, verdict)
      /\ job' = Rest \/ job' = [Rest EXCEPT !.at = "halted"]
      /\ UNCHANGED <<rows, recipe, active, emergency, orderStatus, calls, errors, boundary, task>>
  BY DEF Judged, Working
<1>2. verdict \in ItemStatuses
  BY DEF ItemStatuses
<1>3. RowsOK' /\ RecipeOK' /\ ItemsOK' /\ LocksOK' /\ JobOK' /\ TasksOK' /\ HoldsOK'
  BY <1>1, <1>2, ItemDone
<1> QED BY <1>1, <1>3, Frame DEF SupplyInv

LEMMA AmbiguousKeeps ==
  ASSUME SupplyInv, NEW answer, AnsweredAmbiguously(answer)
  PROVE  SupplyInv'
<1>1. PICK p : p = Provider(job.item)
  OBVIOUS
<1>2. PICK fires : fires = (answer.notice \/ errors[p] + 1 >= ErrorThreshold)
  OBVIOUS
<1>3. /\ job # NoJob /\ job.at = "out" /\ job' = [job EXCEPT !.at = "judge"]
      /\ UNCHANGED <<rows, recipe, active, emergency, items, orderStatus, calls, boundary, lock>>
      /\ errors' = [errors EXCEPT ![p] = IF fires THEN 0 ELSE errors[p] + 1]
      /\ task' = (IF fires THEN [task EXCEPT !["worker"] = Trigger(p)] ELSE task)
  BY <1>1, <1>2 DEF AnsweredAmbiguously, Working
<1>4. p \in Providers /\ lock[p] = "worker" /\ job.item \in DOMAIN job.held
  BY <1>1, <1>3, JobFacts
<1>5. SettingsOK'
  <2>1. errors[p] \in 0 .. ErrorThreshold - 1 /\ ErrorThreshold \in Nat \ {0}
    BY <1>4, SupplyAssumption DEF SupplyInv, SettingsOK
  <2>2. ~ fires => errors[p] + 1 \in 0 .. ErrorThreshold - 1
    <3>1. ~ fires => ~ (errors[p] + 1 >= ErrorThreshold)
      BY <1>2, Zenon
    <3> QED BY <2>1, <3>1
  <2>3. 0 \in 0 .. ErrorThreshold - 1
    BY <2>1
  <2> QED BY <1>3, <1>4, <2>2, <2>3 DEF SupplyInv, SettingsOK
<1>6. /\ task' \in [ Actors -> Tasks ] /\ \A a \in Actors \ {"worker"} : task'[a] = task[a]
      /\ \/ task'["worker"] = task["worker"]
         \/ task'["worker"].at \in { "idle", "switch", "fall" }
  BY <1>3, <1>4, TriggerTask DEF SupplyInv, TasksOK
<1>7. RowsOK' /\ RecipeOK' /\ TasksOK' /\ HoldsOK'
  BY <1>3, <1>6, WorkerActs
<1>8. JobOK'
  <2>1. PICK j, D : j = [job EXCEPT !.at = "judge"] /\ D = DOMAIN job.held
    OBVIOUS
  <2>2. j \in Jobs(D) /\ j.order = job.order /\ j.held = job.held /\ j.item = job.item
    BY <1>3, <2>1, JobFacts DEF Jobs
  <2> QED BY <1>1, <1>3, <1>4, <2>1, <2>2, JobFacts, JobMade DEF Provider
<1> QED BY <1>3, <1>5, <1>7, <1>8, RowsAlone, Frame DEF SupplyInv

LEMMA RecoverKeeps ==
  ASSUME SupplyInv, NEW o \in Orders, NEW n \in Places,
         NEW verdict \in { "succeeded", "failed", "unknown" }, Recover(o, n, verdict)
  PROVE  SupplyInv'
<1>1. /\ n \in DOMAIN items[o] /\ items' = [items EXCEPT ![o][n].status = verdict]
      /\ UNCHANGED <<rows, recipe, active, emergency, calls, job, errors, boundary, lock, task>>
  BY DEF Recover
<1>2. verdict \in ItemStatuses
  BY DEF ItemStatuses
<1>3. /\ ItemsOK' /\ \A q \in Orders : DOMAIN items'[q] = DOMAIN items[q]
      /\ \A q \in Orders : items[q] = <<>> => items'[q] = <<>>
  BY <1>1, <1>2, ItemSettled
<1>4. RowsOK' /\ RecipeOK' /\ TasksOK' /\ HoldsOK'
  BY <1>1, <1>3, WorkerActs DEF SupplyInv, TasksOK
<1>5. JobOK'
  BY <1>1, <1>3, JobStands
<1>6. SettingsOK'
  <2>1. \A v : DeriveOrderStatus(v, MaxAttempts) \in OrderStatuses
    BY DEF DeriveOrderStatus, OrderStatuses
  <2>2. "needs_review" \in OrderStatuses
    BY DEF OrderStatuses
  <2>3. orderStatus' \in [ Orders -> OrderStatuses ]
    BY <2>1, <2>2 DEF Recover, SupplyInv, SettingsOK
  <2> QED BY <1>1, <2>3 DEF SupplyInv, SettingsOK
<1> QED BY <1>1, <1>3, <1>4, <1>5, <1>6, Frame DEF SupplyInv

LEMMA CrashKeeps ==
  ASSUME SupplyInv, Crash
  PROVE  SupplyInv'
<1>1. /\ job' = NoJob /\ errors' = [ p \in Providers |-> 0 ] /\ boundary' = None
      /\ task' = [task EXCEPT !["worker"] = Idle, !["sweep"] = Idle]
      /\ lock' = [ p \in Providers |-> IF lock[p] = "cli" THEN "cli" ELSE None ]
      /\ UNCHANGED <<rows, recipe, active, emergency, items, orderStatus, calls>>
  BY DEF Crash
<1>2. LocksOK' /\ JobOK'
  BY <1>1 DEF LocksOK, JobOK, Actors
<1>3. SettingsOK'
  <2>1. 0 \in 0 .. ErrorThreshold - 1
    BY SupplyAssumption
  <2> QED BY <1>1, <2>1 DEF SupplyInv, SettingsOK
<1>4. /\ task' \in [ Actors -> Tasks ] /\ task'["worker"] = Idle /\ task'["sweep"] = Idle
      /\ \A a \in Actors \ { "worker", "sweep" } : task'[a] = task[a]
  <2>1. Idle \in Tasks /\ "worker" \in Actors /\ "sweep" \in Actors
    BY DEF Tasks, Actors
  <2> QED BY <1>1, <2>1 DEF SupplyInv, TasksOK
<1>5. ASSUME NEW a \in { "worker", "sweep" } PROVE Guarded(a)' /\ TaskHolds(task[a])'
  BY <1>4 DEF Guarded, TaskHolds, Idle, SyncAts
<1>6. ASSUME NEW a \in Actors \ { "worker", "sweep" } PROVE Stays(a)
  <2>1. boundary # "cli"
    BY SupplyAssumption DEF SupplyInv, LocksOK, Actors
  <2> QED BY <1>1, <1>4, <2>1 DEF Stays, Stored, Actors
<1>7. TasksOK' /\ HoldsOK'
  BY <1>4, <1>5, <1>6, RowsAlone, Staying, <1>1
<1> QED BY <1>1, <1>2, <1>3, <1>7, RowsAlone, Frame DEF SupplyInv

------------------------------------------------------------------------------
(* Every step, and what follows.                                           *)

LEMMA SupplyStep == SupplyInv /\ [Next]_vars => SupplyInv'
<1> SUFFICES ASSUME SupplyInv, [Next]_vars PROVE SupplyInv'
  OBVIOUS
<1>1. CASE SyncStep
  BY <1>1, SyncStartsKeeps, SyncUpsertsKeeps, SyncRepointsKeeps, SyncRetiresKeeps, SyncThrowsKeeps
  DEF SyncStep
<1>2. CASE SwitchStep
  BY <1>2, SwitchStepKeeps
<1>3. CASE PanelStep
  BY <1>3, SaveReadsKeeps, SaveProductsKeeps, SaveComboKeeps DEF PanelStep
<1>4. ASSUME NEW o \in Orders, PaymentConfirmed(o) PROVE SupplyInv'
  <2>1. "payment_confirmed" \in OrderStatuses
    BY DEF OrderStatuses
  <2> QED BY <1>4, <2>1, StatusKeeps DEF PaymentConfirmed
<1>5. CASE OrderStep
  BY <1>4, <1>5, FindComboKeeps, PersistKeeps DEF OrderStep
<1>6. ASSUME NEW o \in Orders, HoldForManualFulfillment(o) \/ CloseOrder(o) PROVE SupplyInv'
  <2>1. "needs_review" \in OrderStatuses /\ "refund_required" \in OrderStatuses
    BY DEF OrderStatuses
  <2> QED BY <1>6, <2>1, StatusKeeps DEF HoldForManualFulfillment, CloseOrder
<1>7. CASE WorkerStep
  <2>1. ASSUME NEW o \in Orders, LoadOrder(o) PROVE SupplyInv'
    BY <2>1, LoadOrderKeeps
  <2>2. ASSUME NEW n \in Places, RefuseInactive(n) \/ BalanceFails(n) \/ Purchase(n) PROVE SupplyInv'
    BY <2>2, OrderEnds, BalanceFailsKeeps, PurchaseKeeps
  <2>3. ASSUME NEW answer \in HttpAnswers,
               Answered(answer) \/ AnsweredAmbiguously(answer) \/ AnswerThrows(answer)
        PROVE  SupplyInv'
    BY <2>3, OrderEnds, AnsweredKeeps, AmbiguousKeeps
  <2>4. ASSUME NEW verdict \in { "succeeded", "failed", "unknown" },
               \/ Judged(verdict)
               \/ \E o \in Orders, n \in DOMAIN FirstRecipe : Recover(o, n, verdict)
        PROVE  SupplyInv'
    BY <2>4, JudgedKeeps, RecoverKeeps DEF Places
  <2>5. ASSUME ThrowsOn \/ Finish \/ Crash PROVE SupplyInv'
    BY <2>5, OrderEnds, CrashKeeps
  <2> QED BY <1>6, <1>7, <2>1, <2>2, <2>3, <2>4, <2>5 DEF WorkerStep, Places
<1>8. CASE UNCHANGED vars
  <2>1. UNCHANGED <<rows, recipe, active, emergency, items, orderStatus, job, errors, boundary, lock, task>>
    BY <1>8 DEF vars
  <2>2. TasksOK' /\ HoldsOK'
    BY <2>1, RowsAlone, StaysAlone, Staying DEF SupplyInv, TasksOK
  <2> QED BY <2>1, <2>2, RowsAlone, Frame DEF SupplyInv
<1> QED BY <1>1, <1>2, <1>3, <1>5, <1>7, <1>8 DEF Next

LEMMA SupplyAlways == Spec => []SupplyInv
<1> QED BY SupplyInit, SupplyStep, PTL DEF Spec

\* Types: what the products, recipes, orders, settings, locks and the worker's
\* order can be, whatever the providers answer.
THEOREM SupplyTypes == Spec => []TypeOK
<1>1. ASSUME SupplyInv PROVE TypeOK
  <2>1. ASSUME NEW id \in Products
        PROVE  rows[id] \in [ diamonds : DenominationSet \cup {0}, kind : Kinds \cup {"none"},
                              cost : Nat \cup {NoPrice}, active : BOOLEAN ]
    <3>1. rows[id] \in Stocks \cup {NoRow}
      BY <1>1 DEF SupplyInv, RowsOK
    <3>2. CASE rows[id] \in Stocks
      BY <3>2 DEF Stocks
    <3>3. CASE rows[id] = NoRow
      BY <3>3 DEF NoRow
    <3> QED BY <3>1, <3>2, <3>3
  <2>2. job.order \in Orders \cup {None}
    <3>1. job = NoJob => job.order = None
      BY DEF NoJob
    <3> QED BY <1>1, <3>1, JobFacts
  <2>3. \A o \in Orders : items[o] = <<>> \/ items[o] \in [ DOMAIN FirstRecipe -> Line ]
    BY <1>1 DEF SupplyInv, ItemsOK, Places
  <2>4. rows \in [ Products -> [ diamonds : DenominationSet \cup {0}, kind : Kinds \cup {"none"},
                                 cost : Nat \cup {NoPrice}, active : BOOLEAN ] ]
    BY <1>1, <2>1 DEF SupplyInv, RowsOK
  <2>5. boundary \in Actors \cup {None}
    BY <1>1 DEF SupplyInv, LocksOK, Actors
  <2> QED BY <1>1, <2>2, <2>3, <2>4, <2>5
          DEF TypeOK, SupplyInv, RecipeOK, SettingsOK, LocksOK, Places
<1> QED BY <1>1, SupplyAlways, PTL

\* A recipe line and an item deliver the denomination that was sold, whatever the
\* provider renames or reassigns, and whoever re-points them.
THEOREM DenominationsAreKept == Spec => []DiamondsStay
<1>1. ASSUME SupplyInv PROVE DiamondsStay
  BY <1>1 DEF DiamondsStay, SupplyInv, RecipeOK, ItemsOK, Points, FirstDiamonds
<1> QED BY <1>1, SupplyAlways, PTL

\* What a step may not do to an item that was sent, or to an order that is closed.
Spares ==
  \A o \in Orders : \A n \in DOMAIN items[o] :
    items[o][n].status \notin {"queued", "failed"} \/ orderStatus[o] \in ClosedOrder =>
      items'[o][n].product = items[o][n].product /\ items'[o][n].cost = items[o][n].cost

LEMMA RepointSpares ==
  ASSUME NEW moves, RepointProducts(moves)
  PROVE  Spares
BY DEF RepointProducts, Spares, UnsentItem

LEMMA SettledSpares ==
  ASSUME SupplyInv, NEW o \in Orders, NEW n \in DOMAIN items[o], NEW st \in ItemStatuses,
         items' = [items EXCEPT ![o][n].status = st], UNCHANGED rows
  PROVE  Spares
BY ItemSettled DEF Spares

LEMMA PersistSpares ==
  ASSUME SupplyInv, PersistOrder
  PROVE  Spares
<1>1. /\ task["buyer"].at = "persist" /\ "buyer" \in Actors
      /\ items' = [items EXCEPT ![task["buyer"].order] = task["buyer"].line]
  BY DEF PersistOrder, Actors
<1>2. items[task["buyer"].order] = <<>> /\ items \in [ Orders -> { <<>> } \cup [ Places -> Line ] ]
  BY <1>1 DEF SupplyInv, HoldsOK, TaskHolds, ItemsOK
<1>3. ASSUME NEW o \in Orders, NEW n \in DOMAIN items[o] PROVE items'[o] = items[o]
  BY <1>1, <1>2
<1> QED BY <1>3 DEF Spares

\* A sync and a failover leave the product and the cost of what may have been
\* sent, and of what is closed, as they are: the evidence recovery relies on.
THEOREM EvidenceIsKept == Spec => EvidenceStays
<1>1. ASSUME SupplyInv, [Next]_vars PROVE [Spares]_vars
  <2>1. ASSUME UNCHANGED items PROVE Spares
    BY <2>1 DEF Spares
  <2>2. CASE SyncStep
    BY <2>1, <2>2, RepointSpares
    DEF SyncStep, SyncStarts, SyncUpserts, SyncRepoints, SyncRetires, SyncThrows
  <2>3. CASE SwitchStep
    BY <2>1, <2>3, RepointSpares
    DEF SwitchStep, SwitchReads, SwitchMoves, SetActiveProvider, SwitchThrows,
        FallBackToEmergencyMode, WalletSweepFails, SetActiveProviderAction, SetEmergencyModeAction
  <2>4. CASE PanelStep
    BY <2>1, <2>4 DEF PanelStep, SaveReads, SaveProducts, SaveCombo
  <2>5. CASE OrderStep
    BY <1>1, <2>1, <2>5, PersistSpares DEF OrderStep, FindComboForOrder, PaymentConfirmed
  <2>6. ASSUME NEW st \in ItemStatuses, NEW n \in DOMAIN job.held, job # NoJob,
               Status(n, st), UNCHANGED rows
        PROVE  Spares
    <3>1. PICK o : o = job.order
      OBVIOUS
    <3>2. o \in Orders /\ n \in DOMAIN items[o]
      BY <1>1, <2>6, <3>1, JobFacts
    <3>3. items' = [items EXCEPT ![o][n].status = st]
      BY <2>6, <3>1 DEF Status
    <3> QED BY <1>1, <2>6, <3>2, <3>3, SettledSpares
  <2>7. ASSUME NEW n, Purchase(n) PROVE Spares
    <3>1. "sending" \in ItemStatuses
      BY DEF ItemStatuses
    <3> QED BY <2>6, <2>7, <3>1 DEF Purchase, Working, NextItem
  <2>8. ASSUME NEW answer, Answered(answer) PROVE Spares
    BY <1>1, <2>6, <2>8, AnsweredStatus, JobFacts DEF Answered, Working
  <2>9. ASSUME NEW verdict \in { "succeeded", "failed", "unknown" }, Judged(verdict) PROVE Spares
    <3>1. verdict \in ItemStatuses
      BY DEF ItemStatuses
    <3> QED BY <1>1, <2>6, <2>9, <3>1, JobFacts DEF Judged, Working
  <2>10. ASSUME NEW o \in Orders, NEW n, NEW verdict \in { "succeeded", "failed", "unknown" },
                Recover(o, n, verdict)
         PROVE  Spares
    <3>1. verdict \in ItemStatuses
      BY DEF ItemStatuses
    <3> QED BY <1>1, <2>10, <3>1, SettledSpares DEF Recover
  <2>11. CASE WorkerStep
    BY <2>1, <2>7, <2>8, <2>9, <2>10, <2>11
    DEF WorkerStep, HoldForManualFulfillment, LoadOrder, CloseOrder, RefuseInactive, BalanceFails,
        AnsweredAmbiguously, AnswerThrows, ThrowsOn, Finish, Crash
  <2> QED BY <1>1, <2>2, <2>3, <2>4, <2>5, <2>11 DEF Next
<1> QED BY <1>1, SupplyAlways, PTL DEF Spec, EvidenceStays, Spares

\* The worker's own sync never re-points what the worker has loaded and still has
\* to send: it takes the order boundary, which an order in hand holds.
THEOREM SyncsWaitForOrders == Spec => SyncWaitsForOrders
<1> DEFINE Waits == task["sweep"].at = "repoint" /\ task'["sweep"].at = "retire" =>
                      \A n \in DOMAIN job.held : items'[job.order][n] = items[job.order][n]
<1>1. ASSUME SupplyInv PROVE Waits
  <2> SUFFICES ASSUME task["sweep"].at = "repoint" PROVE DOMAIN job.held = {}
    OBVIOUS
  <2>1. boundary = "sweep"
    BY <1>1 DEF SupplyInv, TasksOK, Guarded, SyncAts, Actors
  <2>2. job = NoJob
    BY <1>1, <2>1, JobFacts
  <2> QED BY <2>2 DEF NoJob
<1> QED BY <1>1, SupplyAlways, PTL DEF SyncWaitsForOrders

=============================================================================
