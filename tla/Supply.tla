-------------------------------- MODULE Supply --------------------------------
(***************************************************************************)
(* Which provider product delivers a denomination: the catalog sync of     *)
(* engine/src/catalog-sync.ts over db/src/adapters/catalog-sync-store.ts,  *)
(* the failover of engine/src/provider-routing.ts that a health trigger or *)
(* the owner starts, the emergency mode behind it, the combos the owner    *)
(* saves, and the orders that are placed from recipes and sent by a worker *)
(* that loaded them before.  Every transaction is a step, as is every read *)
(* a later step relies on.                                                 *)
(*                                                                         *)
(* Who may act: the worker's fulfilment loop, its sweep, the sync CLI, the *)
(* owner's panel and a buyer.  Fulfillment has the order's life in detail; *)
(* here it is what the catalog needs of it: what is held and what is sent. *)
(***************************************************************************)
EXTENDS Clients, OrderStates

CONSTANTS
  Products, ProviderOf,   \* base_products, and the provider of each id
  Denominations,          \* BASE_DENOMINATIONS, a sequence
  Answers,                \* the catalogs each provider may answer with
  FirstRows, FirstRecipe, \* what an earlier sync and the seed left
  Orders, Placed,         \* orders, and those already paid at the start
  None,
  ErrorThreshold, MaxAttempts,
  MaxEvents               \* syncs, combos saved, switches asked for, unreadable
                          \* wallets, failing queries and crashes, together

Providers == { "recargas_america", "central_one" }
Actors    == { "worker", "sweep", "cli", "admin", "buyer" }

ASSUME SupplyAssumption ==
  /\ ProviderOf \in [Products -> Providers]
  /\ None \notin Products \cup Actors
  /\ Placed \subseteq Orders
  /\ ErrorThreshold \in Nat \ {0} /\ MaxAttempts \in Nat \ {0}
  /\ None \notin Orders /\ Denominations \in Seq(Nat \ {0})

VARIABLES
  rows,        \* base_products: what each id is stored as
  recipe,      \* combo_items of the one combo
  active,      \* the setting active_provider
  emergency,   \* the setting emergency_mode
  items,       \* order_items of each order
  orderStatus,
  calls,       \* what was really bought for each item, call by call
  job,         \* the order the worker holds, as it loaded it
  errors,      \* ambiguous purchases in a row, per provider
  boundary,    \* holder of the order boundary
  lock,        \* holder of each provider's advisory lock
  task,        \* what each actor is in the middle of
  left         \* what remains of MaxEvents

vars == <<rows, recipe, active, emergency, items, orderStatus, calls, job,
          errors, boundary, lock, task, left>>

NoRow == [ diamonds |-> 0, kind |-> "none", cost |-> NoPrice, active |-> FALSE ]
Stored(id) == rows[id] # NoRow
StoredOf(p) == { id \in Products : Stored(id) /\ ProviderOf[id] = p }
Sells(id, d) == rows[id].diamonds = d /\ rows[id].active
DenominationSet == { Denominations[n] : n \in DOMAIN Denominations }

\* What a product is stored as, and what a client lists of its own provider's.
Stocks == [ diamonds : DenominationSet, kind : Kinds, cost : Nat \cup {NoPrice}, active : BOOLEAN ]
Offers(p) == [ id : { id \in Products : ProviderOf[id] = p }, diamonds : Nat,
               cost : Nat \cup {NoPrice}, kind : Kinds ]

\* The seed's recipe points at products that are stored, with a price.
ASSUME StockAssumption ==
  /\ FirstRows \in [ Products -> Stocks \cup {NoRow} ] /\ FirstRecipe \in Seq(Products)
  /\ \A n \in DOMAIN FirstRecipe : FirstRows[FirstRecipe[n]] \in Stocks
  /\ Placed # {} => \A n \in DOMAIN FirstRecipe : FirstRows[FirstRecipe[n]].cost # NoPrice

Idle == [ at |-> "idle" ]
NoJob == [ order |-> None, at |-> "none", held |-> <<>>, item |-> 0 ]

\* Mutant: an item being sent counts as unsent.
UnsentItemAny == { "queued", "failed", "sending" }
\* Items that never charged the wallet, and orders nothing will send again.
UnsentItem == { "queued", "failed" }
ClosedOrder == { "completed", "cancelled", "payment_expired", "refund_required" }

Items(line) == [ n \in DOMAIN line |-> [ diamonds |-> rows[line[n]].diamonds, product |-> line[n],
                                         cost |-> rows[line[n]].cost, status |-> "queued" ] ]

Spend == left > 0 /\ left' = left - 1

Init ==
  /\ rows = FirstRows /\ recipe = FirstRecipe
  /\ active = "recargas_america" /\ emergency = FALSE
  /\ items = [ o \in Orders |-> IF o \in Placed THEN Items(FirstRecipe) ELSE <<>> ]
  /\ orderStatus = [ o \in Orders |-> IF o \in Placed THEN "payment_confirmed"
                                                      ELSE "pending_payment" ]
  /\ calls = [ o \in Orders |-> [ n \in DOMAIN FirstRecipe |-> <<>> ] ]
  /\ job = NoJob /\ errors = [ p \in Providers |-> 0 ]
  /\ boundary = None /\ lock = [ p \in Providers |-> None ]
  /\ task = [ a \in Actors |-> Idle ]
  /\ left = MaxEvents

------------------------------------------------------------------------------
(* Re-pointing: recipes and unsent items move from a product to another.   *)

Move(from, to, cost) == [ from |-> from, to |-> to, cost |-> cost ]

Moved(moves, id) == CHOOSE m \in moves : m.from = id
Moves(moves, id) == \E m \in moves : m.from = id

(* repointProducts: one transaction.  Items that may have reached the      *)
(* provider and items of closed orders stay what they were.                *)
RepointProducts(moves) ==
  /\ recipe' = [ n \in DOMAIN recipe |->
                   IF Moves(moves, recipe[n]) THEN Moved(moves, recipe[n]).to ELSE recipe[n] ]
  /\ items' = [ o \in Orders |-> [ n \in DOMAIN items[o] |->
       LET item == items[o][n]
       IN IF /\ item.status \in UnsentItem /\ orderStatus[o] \notin ClosedOrder
             /\ Moves(moves, item.product)
          THEN [item EXCEPT !.product = Moved(moves, item.product).to,
                            !.cost = Moved(moves, item.product).cost]
          ELSE item ] ]

------------------------------------------------------------------------------
(* The catalog sync of one provider.                                       *)

ClashesNever(row, denomination, claimed) == FALSE    \* mutant: no refusal

\* A row is refused whose id is stored or already claimed as another denomination.
Clashes(row, denomination, claimed) ==
  \/ Stored(row.id) /\ rows[row.id].diamonds # denomination
  \/ row.id \in claimed

(* syncCatalog, up to what it will write: the denominations in order.  A   *)
(* claim stands even when the product cannot be used.                      *)
NothingMapped == [ claimed |-> {}, upserts |-> {}, conflicts |-> {} ]
MapOne(catalog, sold, acc, d) ==
  LET found == Candidates(catalog, d)
      fit   == { n \in found : ~Clashes(catalog[n], d, acc.claimed) }
      pick  == IF fit = {} THEN {} ELSE { Pick(catalog, fit, sold) }
  IN [ claimed |-> acc.claimed \cup { row.id : row \in pick },
       upserts |-> acc.upserts \cup { row \in pick : row.cost # NoPrice /\ Buyable(row.kind) },
       conflicts |-> acc.conflicts \cup { catalog[n].id : n \in found \ fit } ]

Mapped(p, catalog) ==
  LET sold == { id \in StoredOf(p) : rows[id].active }
      upTo[n \in 0..Len(Denominations)] ==
        IF n = 0 THEN NothingMapped ELSE MapOne(catalog, sold, upTo[n - 1], Denominations[n])
  IN upTo[Len(Denominations)]

(* The stored products a chosen one takes over from, retired ones too, and *)
(* what is withdrawn.  Nothing mapped withdraws only the ids that now mean *)
(* something else.                                                         *)
Plan(p, catalog) ==
  LET mapped == Mapped(p, catalog)
      withdrawn == { id \in StoredOf(p) : rows[id].active } \ { row.id : row \in mapped.upserts }
      previous(row) == { id \in StoredOf(p) \ {row.id} : rows[id].diamonds = row.diamonds }
  IN [ upserts |-> mapped.upserts,
       moves   |-> UNION { { Move(id, row.id, row.cost) : id \in previous(row) }
                             : row \in mapped.upserts },
       retire  |-> IF mapped.upserts = {} THEN withdrawn \cap mapped.conflicts ELSE withdrawn ]

\* What listProducts makes of each answer.
Listed == [ p \in Providers |-> { IF p = "recargas_america" THEN RaCatalog(raws)
                                                            ELSE CoCatalog(raws) : raws \in Answers[p] } ]

ASSUME ListedAssumption == \A p \in Providers : Listed[p] \subseteq Seq(Offers(p))

FreeUnbounded(a, p) == lock[p] = None    \* mutant: the sweep forgets the boundary
Free(a, p) == lock[p] = None /\ (a = "sweep" => boundary = None)

(* The worker's sweep takes the order boundary and the provider's lock, the *)
(* CLI the lock alone.  Then the catalog and the stored rows are read.      *)
SyncStarts(a, p) ==
  /\ task[a] = Idle /\ Free(a, p)
  /\ Spend
  /\ lock' = [lock EXCEPT ![p] = a]
  /\ boundary' = IF a = "sweep" /\ boundary = None THEN a ELSE boundary
  /\ \E catalog \in Listed[p] :
       LET plan == Plan(p, catalog)
       IN task' = [task EXCEPT ![a] =
            [ at |-> IF plan.upserts = {} THEN "retire" ELSE "upsert",
              provider |-> p, plan |-> plan ]]
  /\ UNCHANGED <<rows, recipe, active, emergency, items, orderStatus, calls, job, errors>>

Letting(a) ==
  /\ lock' = [ p \in Providers |-> IF lock[p] = a THEN None ELSE lock[p] ]
  /\ boundary' = IF boundary = a THEN None ELSE boundary

\* upsertProducts: a product offered again comes back active.
SyncUpserts(a) ==
  /\ task[a].at = "upsert"
  /\ rows' = [ id \in Products |->
       IF \E row \in task[a].plan.upserts : row.id = id
       THEN LET row == CHOOSE r \in task[a].plan.upserts : r.id = id
            IN [ diamonds |-> row.diamonds, kind |-> row.kind, cost |-> row.cost, active |-> TRUE ]
       ELSE rows[id] ]
  /\ task' = [task EXCEPT ![a].at = "repoint"]
  /\ UNCHANGED <<recipe, active, emergency, items, orderStatus, calls, job, errors, boundary, lock,
                 left>>

SyncRepoints(a) ==
  /\ task[a].at = "repoint"
  /\ RepointProducts(task[a].plan.moves)
  /\ task' = [task EXCEPT ![a].at = "retire"]
  /\ UNCHANGED <<rows, active, emergency, orderStatus, calls, job, errors, boundary, lock, left>>

\* deactivateProducts, after nothing points at them any more.
SyncRetires(a) ==
  /\ task[a].at = "retire"
  /\ rows' = [ id \in Products |-> IF id \in task[a].plan.retire
                                   THEN [rows[id] EXCEPT !.active = FALSE] ELSE rows[id] ]
  /\ task' = [task EXCEPT ![a] = Idle] /\ Letting(a)
  /\ UNCHANGED <<recipe, active, emergency, items, orderStatus, calls, job, errors, left>>

\* Any of the three transactions fails: what committed stays.
SyncThrows(a) ==
  /\ task[a].at \in {"upsert", "repoint", "retire"} /\ Spend
  /\ task' = [task EXCEPT ![a] = Idle] /\ Letting(a)
  /\ UNCHANGED <<rows, recipe, active, emergency, items, orderStatus, calls, job, errors>>

------------------------------------------------------------------------------
(* Switching the active provider.                                          *)

Switch(target) == [ at |-> "switch", target |-> target, moves |-> {} ]

(* activateProvider, its reads: what the recipe points at per denomination *)
(* and what the target has ready, any of them when there are several.      *)
InUse(d) == { id \in ToSet(recipe) : rows[id].diamonds = d }
Ready(target, d) == { id \in StoredOf(target) : Sells(id, d) /\ rows[id].cost # NoPrice }
Used == { d \in DenominationSet : InUse(d) # {} }

Picks(S, Of(_)) == { f \in [ S -> Products ] : \A d \in S : f[d] \in Of(d) }

\* Nothing is written unless something moves.
SwitchReads(a) ==
  /\ task[a].at = "switch"
  /\ LET t == task[a].target
         both == { d \in Used : Ready(t, d) # {} }
     IN \E now \in Picks(both, InUse), next \in Picks(both, LAMBDA d : Ready(t, d)) :
             LET switched == { d \in both : now[d] # next[d] }
                 moves == { Move(now[d], next[d], rows[next[d]].cost) : d \in switched }
             IN task' = [task EXCEPT ![a] =
                  IF switched # {} THEN [@ EXCEPT !.at = "move", !.moves = moves]
                  ELSE IF both = {} /\ a # "admin" THEN [@ EXCEPT !.at = "fall"]
                  ELSE Idle]
  /\ UNCHANGED <<rows, recipe, active, emergency, items, orderStatus, calls, job, errors, boundary,
                 lock, left>>

SwitchMoves(a) ==
  /\ task[a].at = "move"
  /\ RepointProducts(task[a].moves)
  /\ task' = [task EXCEPT ![a].at = "set"]
  /\ UNCHANGED <<rows, active, emergency, orderStatus, calls, job, errors, boundary, lock, left>>

SetActiveProvider(a) ==
  /\ task[a].at = "set"
  /\ active' = task[a].target
  /\ task' = [task EXCEPT ![a] = Idle]
  /\ UNCHANGED <<rows, recipe, emergency, items, orderStatus, calls, job, errors, boundary, lock,
                 left>>

\* A query of the switch fails: the trigger falls back, the panel reports.
SwitchThrows(a) ==
  /\ task[a].at \in {"switch", "move", "set"} /\ Spend
  /\ task' = [task EXCEPT ![a] = IF a = "admin" THEN Idle ELSE [@ EXCEPT !.at = "fall"]]
  /\ UNCHANGED <<rows, recipe, active, emergency, items, orderStatus, calls, job, errors, boundary,
                 lock>>

FallBackToEmergencyMode(a) ==
  /\ task[a].at = "fall"
  /\ emergency' = TRUE
  /\ task' = [task EXCEPT ![a] = Idle]
  /\ UNCHANGED <<rows, recipe, active, items, orderStatus, calls, job, errors, boundary, lock, left>>

\* A trigger of the first provider tries the backup; the backup's own, nothing.
Trigger(p) == IF p = "recargas_america" THEN Switch("central_one")
              ELSE [ at |-> "fall", target |-> p, moves |-> {} ]

\* checkWallet reads both wallets, whichever provider is active.
WalletSweepFails(p) ==
  /\ task["sweep"] = Idle /\ Spend
  /\ task' = [task EXCEPT !["sweep"] = Trigger(p)]
  /\ UNCHANGED <<rows, recipe, active, emergency, items, orderStatus, calls, job, errors, boundary,
                 lock>>

SetActiveProviderAction(target) ==
  /\ task["admin"] = Idle /\ Spend
  /\ task' = [task EXCEPT !["admin"] = Switch(target)]
  /\ UNCHANGED <<rows, recipe, active, emergency, items, orderStatus, calls, job, errors, boundary,
                 lock>>

SetEmergencyModeAction ==
  /\ emergency' = ~emergency
  /\ IF emergency THEN UNCHANGED left ELSE Spend
  /\ UNCHANGED <<rows, recipe, active, items, orderStatus, calls, job, errors, boundary, lock, task>>

------------------------------------------------------------------------------
(* The owner saves the combo with the denominations it has.                *)

SaveReads ==
  /\ task["admin"] = Idle /\ Spend
  /\ task' = [task EXCEPT !["admin"] = [ at |-> "save", provider |-> active,
                line |-> [ n \in DOMAIN recipe |-> rows[recipe[n]].diamonds ], found |-> <<>> ]]
  /\ UNCHANGED <<rows, recipe, active, emergency, items, orderStatus, calls, job, errors, boundary,
                 lock>>

(* saveCombo, the products of its transaction: a denomination the provider *)
(* no longer sells throws.                                                 *)
SaveProducts ==
  /\ task["admin"].at = "save"
  /\ LET line == task["admin"].line
         Found(d) == { id \in StoredOf(task["admin"].provider) : Sells(id, d) }
     IN IF \E n \in DOMAIN line : Found(line[n]) = {}
        THEN task' = [task EXCEPT !["admin"] = Idle]
        ELSE \E found \in [ ToSet(line) -> Products ] :
               /\ \A d \in ToSet(line) : found[d] \in Found(d)
               /\ task' = [task EXCEPT !["admin"] = [@ EXCEPT !.at = "write",
                             !.found = [ n \in DOMAIN line |-> found[line[n]] ]]]
  /\ UNCHANGED <<rows, recipe, active, emergency, items, orderStatus, calls, job, errors, boundary,
                 lock, left>>

SaveCombo ==
  /\ task["admin"].at = "write"
  /\ recipe' = task["admin"].found
  /\ task' = [task EXCEPT !["admin"] = Idle]
  /\ UNCHANGED <<rows, active, emergency, items, orderStatus, calls, job, errors, boundary, lock,
                 left>>

------------------------------------------------------------------------------
(* Orders: placed from a recipe read before, then paid.                    *)

FindComboForOrder(o) ==
  /\ task["buyer"] = Idle /\ orderStatus[o] = "pending_payment" /\ items[o] = <<>>
  /\ \A n \in DOMAIN recipe : rows[recipe[n]].active /\ rows[recipe[n]].cost # NoPrice
  /\ task' = [task EXCEPT !["buyer"] = [ at |-> "persist", order |-> o, line |-> Items(recipe) ]]
  /\ UNCHANGED <<rows, recipe, active, emergency, items, orderStatus, calls, job, errors, boundary,
                 lock, left>>

PersistOrder ==
  /\ task["buyer"].at = "persist"
  /\ items' = [items EXCEPT ![task["buyer"].order] = task["buyer"].line]
  /\ task' = [task EXCEPT !["buyer"] = Idle]
  /\ UNCHANGED <<rows, recipe, active, emergency, orderStatus, calls, job, errors, boundary, lock,
                 left>>

PaymentConfirmed(o) ==
  /\ orderStatus[o] = "pending_payment" /\ items[o] # <<>>
  /\ orderStatus' = [orderStatus EXCEPT ![o] = "payment_confirmed"]
  /\ UNCHANGED <<rows, recipe, active, emergency, items, calls, job, errors, boundary, lock, task,
                 left>>

------------------------------------------------------------------------------
(* The worker's fulfilment of one order.                                   *)

View(o) == [ n \in DOMAIN items[o] |-> [ status |-> items[o][n].status,
                                         attempts |-> Len(calls[o][n]) ] ]

\* claimNext, in emergency mode: the order waits for a person.
HoldForManualFulfillment(o) ==
  /\ job = NoJob /\ boundary = None /\ emergency
  /\ orderStatus[o] \in {"payment_confirmed", "partially_delivered", "processing"}
  /\ orderStatus' = [orderStatus EXCEPT ![o] = "needs_review"]
  /\ UNCHANGED <<rows, recipe, active, emergency, items, calls, job, errors, boundary, lock, task,
                 left>>

(* fulfillOrder loads the order once, under the boundary: what it will     *)
(* send, at what cost, and whether it was on sale.                         *)
LoadOrder(o) ==
  /\ job = NoJob /\ boundary = None /\ task["worker"] = Idle
  /\ orderStatus[o] \in {"payment_confirmed", "partially_delivered", "processing"}
  /\ boundary' = "worker"
  /\ orderStatus' = [orderStatus EXCEPT ![o] = "processing"]
  /\ job' = [ order |-> o, at |-> "next", item |-> 0,
              held |-> [ n \in { k \in DOMAIN items[o] : /\ items[o][k].status \in UnsentItem
                                                         /\ Len(calls[o][k]) < MaxAttempts } |->
                           [ product |-> items[o][n].product, cost |-> items[o][n].cost,
                             active |-> rows[items[o][n].product].active ] ] ]
  /\ UNCHANGED <<rows, recipe, active, emergency, items, calls, errors, lock, task, left>>

Working == job # NoJob /\ task["worker"] = Idle
NextItem(n) == n \in DOMAIN job.held /\ \A k \in DOMAIN job.held : n <= k
Provider(n) == ProviderOf[job.held[n].product]
Status(n, st) == items' = [items EXCEPT ![job.order][n].status = st]

\* The order stays as it is and the boundary is let go.
WorkerEnds ==
  /\ job' = NoJob
  /\ boundary' = None
  /\ lock' = [ p \in Providers |-> IF lock[p] = "worker" THEN None ELSE lock[p] ]

\* A product withdrawn before the order was loaded is refused, which throws.
RefuseInactive(n) ==
  /\ Working /\ job.at = "next" /\ NextItem(n) /\ ~job.held[n].active
  /\ WorkerEnds
  /\ UNCHANGED <<rows, recipe, active, emergency, items, orderStatus, calls, errors, task, left>>

\* A balance cannot be read: the trigger runs before the exception goes on.
BalanceFails(n) ==
  /\ Working /\ Spend
  /\ \/ job.at = "next" /\ NextItem(n)
     \/ job.at = "judge" /\ n = job.item
  /\ job' = [job EXCEPT !.at = "throw"]
  /\ task' = [task EXCEPT !["worker"] = Trigger(Provider(n))]
  /\ UNCHANGED <<rows, recipe, active, emergency, items, orderStatus, calls, errors, boundary, lock>>

(* The lock, the mark in the row, and the call: with the product that was  *)
(* loaded, whatever the row says by now.                                   *)
Purchase(n) ==
  /\ Working /\ job.at = "next" /\ NextItem(n) /\ job.held[n].active
  /\ lock[Provider(n)] = None
  /\ lock' = [lock EXCEPT ![Provider(n)] = "worker"]
  /\ Status(n, "sending")
  /\ calls' = [calls EXCEPT ![job.order][n] = Append(@, job.held[n].product)]
  /\ job' = [job EXCEPT !.at = "out", !.item = n]
  /\ UNCHANGED <<rows, recipe, active, emergency, orderStatus, errors, boundary, task, left>>

Rest == [job EXCEPT !.held = [ k \in DOMAIN @ \ {job.item} |-> @[k] ], !.item = 0, !.at = "next"]
Unlocked == [lock EXCEPT ![Provider(job.item)] = None]

Outcome(answer) == IF Provider(job.item) = "recargas_america" THEN RaPurchase(answer)
                                                              ELSE CoPurchase(answer)

(* A definite answer is settled and forgets the errors before it.  A code  *)
(* instead of a top-up, and what would fail again, stop the order.         *)
Answered(answer) ==
  /\ Working /\ job.at = "out" /\ Outcome(answer).kind \notin {"ambiguous", "thrown"}
  /\ LET outcome == Outcome(answer)
     IN /\ Status(job.item, CASE outcome.kind = "pending" -> "provider_pending"
                              [] outcome.kind = "delivered_as_code" -> "unknown"
                              [] OTHER -> outcome.kind)
        /\ job' = IF outcome.kind = "delivered_as_code" \/ outcome = Failed(FALSE)
                  THEN [Rest EXCEPT !.at = "halted"] ELSE Rest
  /\ lock' = Unlocked
  /\ errors' = [errors EXCEPT ![Provider(job.item)] = 0]
  /\ UNCHANGED <<rows, recipe, active, emergency, orderStatus, calls, boundary, task, left>>

\* An answer the client chokes on leaves the item as it was sent.
AnswerThrows(answer) ==
  /\ Working /\ job.at = "out" /\ Outcome(answer) = Thrown
  /\ WorkerEnds
  /\ UNCHANGED <<rows, recipe, active, emergency, items, orderStatus, calls, errors, task, left>>

\* Mutant: the count survives the trigger.
AnsweredAmbiguouslyForever(answer) ==
  /\ Working /\ job.at = "out" /\ Outcome(answer).kind = "ambiguous"
  /\ LET p == Provider(job.item)
     IN /\ errors' = [errors EXCEPT ![p] = @ + 1]
        /\ task' = IF answer.notice \/ errors[p] + 1 >= ErrorThreshold
                   THEN [task EXCEPT !["worker"] = Trigger(p)] ELSE task
  /\ job' = [job EXCEPT !.at = "judge"]
  /\ UNCHANGED <<rows, recipe, active, emergency, items, orderStatus, calls, boundary, lock, left>>

(* wrapWithHealthMonitor: a maintenance notice, or one ambiguous answer    *)
(* too many, runs the trigger while the call's locks are held.             *)
AnsweredAmbiguously(answer) ==
  /\ Working /\ job.at = "out" /\ Outcome(answer).kind = "ambiguous"
  /\ LET p == Provider(job.item)
         fires == answer.notice \/ errors[p] + 1 >= ErrorThreshold
     IN /\ errors' = [errors EXCEPT ![p] = IF fires THEN 0 ELSE @ + 1]
        /\ task' = IF fires THEN [task EXCEPT !["worker"] = Trigger(p)] ELSE task
  /\ job' = [job EXCEPT !.at = "judge"]
  /\ UNCHANGED <<rows, recipe, active, emergency, items, orderStatus, calls, boundary, lock, left>>

ThrowsOn ==
  /\ Working /\ job.at = "throw"
  /\ WorkerEnds
  /\ UNCHANGED <<rows, recipe, active, emergency, items, orderStatus, calls, errors, task, left>>

\* After the trigger the wallet decides; what it cannot decide stops the order.
Judged(verdict) ==
  /\ Working /\ job.at = "judge"
  /\ Status(job.item, verdict) /\ lock' = Unlocked
  /\ job' = IF verdict = "unknown" THEN [Rest EXCEPT !.at = "halted"] ELSE Rest
  /\ UNCHANGED <<rows, recipe, active, emergency, orderStatus, calls, errors, boundary, task, left>>

Finish ==
  /\ Working
  /\ job.at = "halted" \/ (job.at = "next" /\ DOMAIN job.held = {})
  /\ orderStatus' = [orderStatus EXCEPT ![job.order] =
       IF job.at = "halted" THEN "needs_review"
       ELSE DeriveOrderStatus(View(job.order), MaxAttempts)]
  /\ WorkerEnds
  /\ UNCHANGED <<rows, recipe, active, emergency, items, calls, errors, task, left>>

(* recoverStalledItems, under the lock of the provider the row names: the  *)
(* wallet decides, and the order follows.                                  *)
Recover(o, n, verdict) ==
  /\ n \in DOMAIN items[o] /\ items[o][n].status = "sending"
  /\ lock[ProviderOf[items[o][n].product]] = None
  /\ ~(job.order = o /\ job.item = n)
  /\ verdict = "failed" => Len(calls[o][n]) < MaxAttempts
  /\ items' = [items EXCEPT ![o][n].status = verdict]
  /\ orderStatus' = [orderStatus EXCEPT ![o] =
       IF verdict = "unknown" THEN "needs_review"
       ELSE LET derived == DeriveOrderStatus([View(o) EXCEPT ![n].status = verdict], MaxAttempts)
            IN IF emergency /\ derived \in {"processing", "partially_delivered"}
               THEN "needs_review" ELSE derived]
  /\ UNCHANGED <<rows, recipe, active, emergency, calls, job, errors, boundary, lock, task, left>>

\* A reviewed order is given up, with whatever was not sent.
CloseOrder(o) ==
  /\ orderStatus[o] = "needs_review"
  /\ orderStatus' = [orderStatus EXCEPT ![o] = "refund_required"]
  /\ UNCHANGED <<rows, recipe, active, emergency, items, calls, job, errors, boundary, lock, task,
                 left>>

\* The worker dies: its loop, its sweep, its session locks and its counters.
Crash ==
  /\ Spend
  /\ job' = NoJob /\ errors' = [ p \in Providers |-> 0 ]
  /\ task' = [task EXCEPT !["worker"] = Idle, !["sweep"] = Idle]
  /\ boundary' = None
  /\ lock' = [ p \in Providers |-> IF lock[p] = "cli" THEN "cli" ELSE None ]
  /\ UNCHANGED <<rows, recipe, active, emergency, items, orderStatus, calls>>

------------------------------------------------------------------------------

SyncStep == \E a \in {"sweep", "cli"} :
  \/ \E p \in Providers : SyncStarts(a, p)
  \/ SyncUpserts(a) \/ SyncRepoints(a) \/ SyncRetires(a) \/ SyncThrows(a)

SwitchStep ==
  \/ \E a \in {"worker", "sweep", "admin"} :
       \/ SwitchReads(a) \/ SwitchMoves(a) \/ SetActiveProvider(a) \/ SwitchThrows(a)
       \/ FallBackToEmergencyMode(a)
  \/ \E p \in Providers : WalletSweepFails(p) \/ SetActiveProviderAction(p)
  \/ SetEmergencyModeAction

PanelStep == SaveReads \/ SaveProducts \/ SaveCombo

OrderStep == PersistOrder \/ \E o \in Orders : FindComboForOrder(o) \/ PaymentConfirmed(o)

WorkerStep ==
  \/ \E o \in Orders : HoldForManualFulfillment(o) \/ LoadOrder(o) \/ CloseOrder(o)
  \/ \E n \in DOMAIN FirstRecipe : RefuseInactive(n) \/ BalanceFails(n) \/ Purchase(n)
  \/ \E answer \in HttpAnswers : 
       Answered(answer) \/ AnsweredAmbiguously(answer) \/ AnswerThrows(answer)
  \/ \E verdict \in {"succeeded", "failed", "unknown"} :
       \/ Judged(verdict)
       \/ \E o \in Orders, n \in DOMAIN FirstRecipe : Recover(o, n, verdict)
  \/ ThrowsOn \/ Finish \/ Crash

Next == SyncStep \/ SwitchStep \/ PanelStep \/ OrderStep \/ WorkerStep

Spec == Init /\ [][Next]_vars
=============================================================================
