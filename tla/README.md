# A verification project for the diamond shop

The shop sells Free Fire diamonds. A customer buys a combo, which is several
provider products; pays by bank transfer, card or cash voucher; and a worker
buys the products one by one from one of two providers, with prepaid wallets
and no idempotency key. Diamonds cannot be taken back and money cannot be
guessed at, so what matters is: nothing is delivered twice, nobody who paid is
forgotten, and what the books say happened did happen.

This directory holds TLA+ modules translated from the source, TLC
configurations that check them on small instances, and TLAPS proofs of the
central safety properties for all instances.

    tlc -workers 2 -config FulfillmentFaults.cfg MCFulfillment.tla
    tlapm FulfillmentProofs.tla

Paths below are relative to `src/`.

## The system

| part | state | operations | what makes it hard |
|---|---|---|---|
| order states (`packages/engine/src/states.ts`) | none | the transition table, deriving an order from its items | several writers bypass the table |
| reconciliation (`packages/provider/src/reconcile.ts`) | none | a verdict from two wallet readings | debits deviate from the catalog; other calls and deposits move the wallet |
| fulfilment (`fulfillment.ts`), poller (`poller.ts`), review (`review.ts`) | orders, order_items | claim, send, settle, poll, recover, six review actions | crashes and lost answers between a send and its settlement; three writers on stale loads |
| queue, stores, lock (`packages/db/src/adapters/`) | rows, one lock per provider | guarded updates, SKIP LOCKED claim | the guards are what the rest relies on |
| providers, health, routing, catalog sync, emergency mode | catalog rows, recipes, the active provider, a flag | map answers to outcomes, count failures, switch provider, re-point products | every switch is several writes that overlap the worker, the sync and each other |
| payments, gateway events, expiry | payments, payment_events | approve, reject, settle a gateway's report, expire | load, decide and write are separate transactions; webhooks repeat, overlap and reorder |
| checkout, ordering, catalog administration | combos, recipes, campaign, orders | show, order, open a charge; edit and retire combos | the page, the price and the recipe are read at different times; caps are counted before the insert |
| level pass, reversal, LP override, seasons | LP ledger, checkpoints, reward orders, seasons | credit, grant, reverse, override, close | sweeps and admins over the same counters, each with reads before its transaction |
| customer accounts, panel sign-in | codes, profiles, linked ids, admin_users, cookies | mailed codes, sign-up, linked id, second factor | requests of several browsers between each other's reads and writes |
| badges | definitions, ownerships, audit log | award, revoke, feature | the same |
| accounting | ledger_entries, exchange rate, sales | statements over any range, manual entries | a sale may be reversed weeks later |
| conversion reports | attempts and marks on orders | one sweep that reports sales to the ad platform | dies between any two writes; the platform answers anything |
| payment settings | two settings rows | the account customers pay to, what is offered | digits, and two editors under open checkouts |

How they interact: checkout and ordering create the order and its payment; a
confirmed payment sets the order to `payment_confirmed`, which *is* the queue;
the worker claims it, spends the provider's wallet under the provider's lock,
and parks it in `needs_review` when in doubt; the sweep finishes what the
worker left `sending` or `provider_pending`, syncs the catalog, credits level
points, delivers rewards, closes seasons and reports sales; the admin resolves
what is parked. Everything meets in the database; there are no messages but
the gateways' webhooks.

## Modules

Every module is translated from the code `PROJECT.json` maps it to. A family
has a model, a `…Props` module that states what must hold, an `MC…` module with
the constants' values for TLC and modules of proofs. `SumTheorems` is what the
proofs of two families need of sums over finite sets.

**Fulfilment.** `OrderStates` and `Reconcile` hold the pure functions of
`states.ts` and `reconcile.ts`. `Readings` puts one call between the two
readings it is judged by; its proof is in `ReadingsProofs`. `Fulfillment` is one provider's fulfilment: the rows
(`orderStatus`, `status`, `attempts`, `before`), the provider (`wallet`,
`charged`, `late`), the lock, and the memory of the two loops. The worker's
steps are `fulfillOrder`'s awaits, in its order: `Claim`, `LoadOrder`,
`PreflightPasses`/`PreflightShort`, then per item `TakeLock`, `MarkSending`,
`Purchase`, `Settle`, and at the end `FinishLoad`, `FinishWrite`; `HoldLoad`
and `HoldWrite` are the emergency path. The sweep's are `PollQuery`,
`PollCompleted`/`PollEscalates`/`SkipRow`, `RecoverQuery`, `TryLock`,
`RecoverItem`, `Escalate`, `RefreshLoad`, `RefreshWrite`. A review is a `Plan…`
action and `ApplyReview`. What a loop holds in memory (`job`, `batch`, `sjob`,
`plan`) is what the code holds in locals, stale by however long the other
actors took. A write is a `WHERE` guard in the store; one that matches nothing
throws, and the throw takes the code's path (`WorkerIdle`, `SkipRow`,
`SweepThrows`). `FulfillmentProps` states the properties, `FulfillmentInv` the
inductive invariants, `FulfillmentProofs` has the theorems. Three abstract
specifications say what all this promises, each to somebody else:

* `Ledger`, to the customer: an item is given at most once and booked only
  after that.
* `LossyLedger`, to whoever runs the worker: the same when calls are cut off. An
  item is lost while it is `sending` and no worker is at its call; finding it may
  book it without its having been given, and nothing else may.
* `Review`, to the admin: each of the panel's six actions is taken at once on the
  rows as they are, though the code loads, plans and commits with both loops in
  between; and it says what the loops may do to rows and orders, which is never
  to requeue an item or to decide a refund.

In `Fulfillment` one review is between its load and its commit at a time.
`TwoAdmins` adds a second one, by instantiating the review actions with a
variable of its own.

**Supply.** `Clients` turns every class of HTTP answer of the two provider
clients into the outcome the worker sees, and counts a health monitor up and
down. `Supply` moves what is sold: catalog rows, recipes and unsent items, under
the worker's loaded items, the catalog loop, the CLI that runs beside it, the
health triggers and the panel, each switch read by read and write by write.
Wallets are `Fulfillment`'s subject and not repeated here.

**Payments.** `Payments` is one order's payment; orders share nothing there, so
one stands for all. A request (webhook delivery, page view, admin tap, sweep
row) is a little program over `req[r]`: load, decide, write, mark. `Confirm`,
`Flag`, `RejectWrite` and `Expire` are the four transactions of
`payment-store.ts`, with exactly the guards they have. Deadlines are reduced to
what set them and whether they have passed.

**Storefront.** `Gateways` says what a charge may be reported as and what may
open one; `Catalog` is the combo an admin edits, its review, its recipe and the
campaign; `Storefront` puts an order between them: what a page showed, what
`placeOrder` reads afterwards query by query, the cap and the index behind it,
the charge, the approval, the lapse and the orders made by hand in the panel.

**Level pass.** `LevelPassPlans` holds the pure decisions (`Decide`,
`PlanReversal`, `PlanOverride`, rounding, ranking). `LevelPass` runs them:
the sweep credits, places and grants rewards and closes seasons, admins reverse
and override, players change their linked id, an admin rewrites the ladder. A
decision is one step (the reads) and its transaction another. `reached` and
`completed` carry stamps in place of timestamps; rows of one transaction share
theirs, and rows with the same stamp come in any order. What the reports say is
computed from the rows (`SeasonFigures`, `SeasonRewards`, `CustomerProfit`,
`CustomerRewards`).

**Accounts.** `Accounts` (mailed codes, sign-up, the linked id), `SignIn` (the
panel's second factor), `Badges`, `Books` (ledger and statements),
`Conversions` (reports to the ad platform) and `Settings` (the account
customers pay to) have no variable in common; `AccountsProps` puts them side by
side and follows one at a time.

### Abstractions

* Clocks. An item in `sending` may always be old enough for recovery, and an
  order in `processing` stale enough to be claimed again. `aged`, `overdue`,
  `expired` and the like are set by actions of their own.
* One provider in `Fulfillment`; its switch to another is in `Supply`. The
  reserve floor is zero, the batch size unbounded, and one worker process runs
  (the order boundary is an in-process mutex; the deployment has one worker).
* Reviews come one at a time in `Fulfillment` (`plan`); two at once are in
  `TwoAdmins`. What an admin says of an item was true when the request was loaded.
  What was delivered outside counts (`byHand`) once its review commits; a review
  that is refused leaves a delivery the code never hears of (`review.ts:56-57`).
* A second wallet reading and the settlement that follows are one step: a call
  that lands between them is one that lands right after.
* What the provider makes of a reference it has seen before is outside the
  code: the models let every send land and be charged by itself.
* In `Supply`, the two reads of `activateProvider` are one step.
* In `Payments`, `oxxo` and `spei` are both `voucher`; amounts are `exact` or
  `other`; the customer can only pay on a page the checkout gave them. The
  panel's pages may be stale, so `Approve` and `Reject` ask only for the
  payment's method.
* In `Payments`, `alerted` grows when `notifyOps` is called, a step of its own
  before the event is marked. Telegram may still lose the message: `ops.ts:26-45`
  swallows a failed send, and nothing repeats it.
* In `Storefront`, whether an offer of the vault opens to the customer is one
  Boolean, and so is a campaign; its price is what an admin last saved.
* In `Accounts`, a code is its row's number; the limiter, which only makes codes
  rarer, is the bound `MaxCodes`; in `SignIn` it is a count and a passing
  window. Free Fire ids are interchangeable.
* In `Books`, a statement is computed at one instant; a sale counts by the
  hour it was completed in; rounding is to a centavo.
* Every bound is a constant (`Max…`), named in the module and counted in the
  guards. `MaxTurns` in `LevelPass` and `Storefront` and `MaxEvents` in `Supply`
  are one budget for all the rare outside events of the family.

## Runs

| run | instance | shows |
|---|---|---|
| `FulfillmentFaults` | two orders of one item, same price, one product withdrawn; one crash, one exception, all answers but a late landing | `DeliveredOnce`, `RetriesAreBounded`, no verdict under a live call; fulfilment implements `LossyLedger` |
| `FulfillmentLedger` | one order, two items; all answers but a late landing, two reviews, one emergency switch | fulfilment implements `Ledger` and `Review`; budgets hold through resets, completed orders are whole |
| `FulfillmentLive` | one order, two items, a wallet that covers one; late landings, PENDING answers, a crash, a top-up | a paid order completes or reaches a human, and is whole if it completes |
| `Readings` | the six launch prices, measured debits, usual deposits | no verdict allows a retry of a landed call or takes a denomination for another |
| `Supply` | one combo of two products, three products of one provider and one of the other; a worker, a sweep, a CLI, the panel; two rare events | recipes and items keep their denomination, evidence of sends stays, the sync waits for the order in hand |
| `Payments` | two concurrent requests on one payment by transfer, card or voucher; any amount, two taps or page views, one failure | `EnqueuedOnce` for what was paid as asked, `EventsAreHeard`, `PaidIsQueued`, `ConfirmedIsKept`, `ReviewedNeverExpires`; `MoneyIsHeard` under fairness |
| `Storefront` | the Mega Oferta, a storefront and a panel caller, two orders, an offer of the vault at two prices, one rare event | one place each, whole recipes; a place comes back |
| `SweepUnparks` | one order, two items; no crash, exception or review | *violated*: the sweep puts a parked order back in the queue |
| `CutOffHalt` | one order, two items; answers in time, one exception | *violated*: an order with an undecided item goes on being sent |
| `LevelPass` | two orders, two rungs, two seasons, one sweep, one admin; one reversal, one override, one rare event | counters equal their rows, rewards and refunds are booked once and reported so, the past is final |
| `LevelPassLive` | two orders, a deliverable and an undeliverable rung, an edit of the ladder; three rare events | completed orders are credited, deliverable rewards placed |
| `Accounts` | two browsers, two mailboxes, three ids, two codes, two seasons; two logins, two secrets; two hands; three sales over two days; two reports, one crash; two editors | every way in was proven, once and on record, statements stand, sales are reported, customers pay to what was reviewed |

Why the bounds are enough. The hazards need two of something: two items whose
calls can be confused (they have the same price, the worst case), two attempts,
two readers of one row, two browsers with one code, one crash. Three or more
repeat a pattern already there, and the proofs below cover the safety
properties they name for any number. Some bounds are more than a matter of
size, because the property fails beyond them; the next section says
which and how:

* `Amounts` and `Methods` do not bound `EnqueuedOnce`: it says itself which
  payments it is about, a card or a voucher of which nothing but the amount asked
  was reported, for any number of visits (the theorem `EnqueuedOnceByGateway`).
  Of the rest it says nothing, and there an order may be enqueued twice; see the
  next section.
* No late landing in `FulfillmentFaults` and `FulfillmentLedger`, and no deposit
  either (`QuietWallet` in the theorems): with one, an item may be delivered twice.
* `Withdrawable` empty in `FulfillmentLive`: an order with a withdrawn product
  never rests.
* `MaxCrashes = 0` in `FulfillmentLedger`: a crash can make recovery book what
  was not given. The theorem about `Ledger` has this as the hypothesis
  `CallsEnd`; what is left when calls are cut off is `LossyLedger`, which
  `FulfillmentFaults` checks with a crash and an exception.
* One sweep in `LevelPass` and `LevelPassLive`, as one worker is deployed: the
  season cannot close between a credit's decision and its transaction.
* One admin in `LevelPass`: with two on the same order the points part of
  `StatsMatch` fails. The theorem has this as the hypothesis `OrdersApart`.
* `BatchSize = 2` in `LevelPassLive`, more than the undeliverable rungs:
  `RewardsArePlaced` fails otherwise.
* `Indexed = TRUE` in `Storefront`: only the Mega Oferta has an index behind its
  cap.

Deadlock is checked wherever the system should go on; the runs that turn it off
stop when the bounds leave nothing to happen. `Accounts` uses symmetry over
Free Fire ids, of which no action or property singles out one; its temporal
property is an action property and says nothing about ids.

Fairness. `FulfillmentLive` assumes that both loops of `runner.ts` go on, which
their `while` and catch blocks see to, and that pending items grow old. It does
not assume that locks are granted to anybody in particular, that the provider
recovers, or that an admin ever looks. Status queries that fail for ever are
excluded (`NoErrorPoll`), and so are withdrawn products: both are reported
below. `MoneyIsHeard` assumes that a started request goes on and that the
gateway redelivers until it gets a 200, as Stripe and Mercado Pago do.
`SlotsAreReleased` assumes that time passes, that the expiry sweep comes round
and that a request goes on once the order is inserted (`placeOrder` has a
`try` around what follows); a gateway or a person promises nothing. It speaks of
orders whose deadline is not extended for ever once it has passed
(`<>[][~Extended(o)]_order`), and that is where the code ends: every report of a
voucher and every page view that asks for one counts the deadline anew.
`LevelPassLive` assumes that `main.ts` calls the sweep's jobs in turn for ever —
strong fairness for the four queries a job may begin with, since one loop
serves them all and each comes round — that a begun transaction ends, and that
fulfilment completes reward orders.

## Where the code and its words part

Each of these was met while modelling and can be seen by checking the named
property with the values given, the rest as in the family's configuration. The
properties that do not hold are in the `…Props` modules (the one about two
admins in `TwoAdmins`). Two of them have a run that expects the violation,
`SweepUnparks` and `CutOffHalt`.

Fulfilment and payments:

* **A withdrawn product stops nothing.** Refusing it settles a queued item,
  which the store's guard refuses (`fulfillment-store.ts:120`); the exception
  skips the alert and the halt, and the order is claimed again for ever, though
  `fulfillment.ts:164` says "Refuse rather than send, and stop the order for a
  human". `PaidOrdersRest` under `FairSpec` with one order of two items, wallet
  20000, `MaxAttempts = 2`, `Outcomes <- Answered`, `PollAnswers <- Nothing`,
  `Withdrawable <- OneItem` and all other bounds 0.
* **The sweep unparks.** After a halt a pending item of the order completes,
  and `refreshOrderStatus` (`poller.ts:356`) derives from the items alone,
  though `fulfillment.ts:403` says "A halt always means a human is needed,
  whatever the items alone imply". The run `SweepUnparks` shows it for
  `OnlyHumansUnpark`. The same write goes over `refund_required` and `cancelled`.
* **Two admins at one item.** `applyReview` compares statuses
  (`review-store.ts:54`, `:78`), and a status may come back: an item is `unknown`
  after a call that did not land; two admins check the provider's panel and say
  so; the first one's requeue and resume have it sent again, it lands and is left
  `unknown` again; then the second one's commit finds everything as it was
  planned on, and the item is sent, or handed over, once more. `resetAttempts` has the attempt
  count come back too. `review.ts:15` says "Never let a click cause a second
  delivery", and `review.ts:19` that with "two admins" a plan is applied "only if
  nothing moved in the meantime". `ClicksNeverDeliverTwice` with `TwoAdmins.cfg`,
  where a crash leaves the item in doubt the first time and nothing is paid in;
  the window is from the load to the commit there, and in the shop it begins with
  the look at the panel.
* **A mismatch reopens a paid payment.** `flagMismatch`
  (`payment-store.ts:112`) has no guard: a tap that loaded the payment before
  another confirmed it flags it, and the next tap enqueues the order again: a
  transfer, or a voucher that came short and was released twice. `EnqueuedOnce`
  without `PaysAsAsked` (that is, `enqueued <= 1`), with `Requests = {r1, r2}`,
  `Checkouts <- AdminOnly`, `Methods <- TransferOnly`, `Amounts <- AnyAmount`,
  `MaxVisits = 3`, `MaxThrows = 0`.
* **A checkout that cannot open its charge cancels nothing.** `rejectPayment`
  (`payments.ts:222`) refuses card, OXXO and SPEI, though
  `comprar/[combo]/actions.ts:391` says "the order is cancelled on the spot".
  `OpeningIsCancelled` under `Spec` with `Requests = {r1}`, `Checkouts <- ByGateway`, `Methods
  <- GatewayMethods`, `Amounts <- OnlyExact`, `MaxVisits = 0`, `MaxThrows = 0`.
* `PaidOrdersRest` with `"error"` among the poll answers: a status query that
  keeps throwing is looked at before the item's age (`poller.ts:148`, `:183`),
  and the item is never given up.
* `DeliveredOnce` with `"ambiguous_late"` among the outcomes: a request that
  lands after its timeout was judged is sent again. No reading can tell.
* `DeliveredIsReal` with two orders and a crash: the restarted worker's next
  call moves the wallet by the same price before recovery reads it, and the
  lost call is booked as delivered. The lock covers live calls, not the time
  since the stored reading. For the same reason `ImplementsLedger` holds only
  without crashes and late landings; `ImplementsLossyLedger` says that nothing
  worse than this happens.
* `Review` allows what a team may not expect of it. A completion can be missed:
  whether the others are done is read with the plan, and the commit compares the
  order and the reviewed item only, so an order whose last other item succeeded
  in between stays `needs_review` with everything delivered. A resume can commit
  though another item became `unknown` since its load, as the sweep's escalation
  writes the `needs_review` that was there (`review-store.ts:41-47`). A refund can
  commit while the worker, which does not reload, has an item of the order out.
  And the sweep may write any status over `refund_required` or `cancelled`
  (`Moves` has no guard on the status it replaces, because the code has none).
* `StoppedOrdersAreNotSent` with PENDING answers, or with an exception or a crash
  right after an item was left undecided: the order stays `processing`, is
  claimed again as stale, and its queued items are sent, though
  `fulfillment.ts:363` says "do not keep spending while". The run `CutOffHalt`
  shows it with one exception. The worker does not reload the order between items
  either (`fulfillment.ts:155-192`), so one that is stopped while it is in hand, by
  the sweep or a review, has the rest of its items sent.
* `MovesDeclared` with two taps: an approval loaded before a rejection commits
  ships a cancelled order. `confirmPayment` is guarded on the payment only.
* `VoucherIsHeld` with vouchers only: a sweep that read the old deadline
  expires a payment whose deadline was extended since
  (`gateway-payments.ts:109`).

Supply:

* `RowNamesItsCall` does not hold: a failover, the panel's switch and the CLI
  re-point items the worker already holds, so a row may name another provider's
  product than the one bought. Only the worker's own sync waits at the order
  boundary (`runner.ts:71-83`); `sync-catalog.ts:8-13` calls itself "Safe to run
  while the worker is up".
* The backup trips with the main one: `checkWallet` reads both wallets
  (`main.ts:143-144`), so an outage of the idle provider counts against it.
* Overlapping switches can leave `active_provider` naming one provider and the
  recipes pointing at the other.
* A 200 of RecargasAmérica that cannot be read, or says `success: false`, is
  booked as a permanent failure; Central One's maintenance answer is `failed`
  too. `refunded` is not among the closed statuses a re-point leaves alone.

Storefront:

* `findComboForOrder` reads price and recipe in two queries, so a save in
  between sells the new recipe at the old price.
* Caps of other combos are counted and then inserted, and can be exceeded.
* `toggleCombo` and a save review first and write later; another admin may have
  changed what was reviewed (`catalog-admin.ts:11-12`).
* `ordering-store.ts:55` says the panel "can still approve an expired payment
  with 'forzar'"; `approvePayment` refuses `expired`.
* A rejected first attempt at Mercado Pago expires the order, so a retry that
  succeeds is refused and alerted; `getCharge` looks at the latest attempt only.
* `findCustomerOrder` reads the order and then its payment. `combos.startsAt` and
  `endsAt` are written by nothing. A payment `under_review` is never swept.
* The price of an order is not the price of the page. `createOrder` freezes what
  the combo's row, or the vault's offer, says by then (`ordering.ts:305-317`), and
  the form does not send what was shown. An offer is checked to be below the
  combo when *it* is saved (`vault-admin-store.ts:68-71`: "a copy-paste mistake,
  not a real offer"), and nothing checks it when the combo is saved below it.
* An unpaid order by SPEI can hold its place without end: Stripe puts no expiry on
  the transfer (`stripe.ts:70-72`), and every report of it and every view of the
  order's page moves the deadline on (`gateway-report.ts:80-90`,
  `gateway-payments.ts:107-109`). Hence the premise of `SlotsAreReleased`.

Level pass:

* `ReversedOwesNothing`: a reward order may be created while the order that
  earned it is being reversed (`order-reversal.ts` says revoking "would not stop
  the diamonds" once there is one). `RefundedEarnsNothing`: an order refunded
  between a sweep's read and its credit earns. `EarnedIsOwed`: a reversed
  checkpoint still counts as reached, so points earned again never grant it.
* `RewardsArePlaced` starves with a batch no longer than the undeliverable
  rewards: rows of one transaction tie in `reached_at` and come in any order.
* The points part of `StatsMatch` fails with two admins on one order.
* Orders older than fourteen days (`config.ts:173`) are forgotten.
* The ladder's recipes point at active products whichever provider they are of,
  and neither a sync nor a failover re-points them.

Accounts:

* A change of linked id leaves the old one in other browsers' sessions. An id
  taken between the check and the write throws, and the allowance is rolled
  back with it. A season that turns in between books the change to the old one.
* Two tabs that choose badges for display at once may leave the badges of both,
  more than `MAX_FEATURED_BADGES`: `setFeaturedBadges` deletes and inserts under
  READ COMMITTED, without a lock, and the index is on a badge and not on a place
  (`customer-profile-store.ts:250-257`). `ClearFeatured` and `SetFeatured` are the
  two, and `TypeOK` claims no limit.
* `setFeaturedBadges` and the pages do not look at `revokedAt`; a revoked badge
  cannot be awarded again, and the action still answers `ok`.
* With an older request under way, a time step can open a second session if the
  factor is set up anew in between; hence "once per set-up": `opened` is forgotten
  when the factor is reset. An account put out of use (`Deactivate`) gets no
  further in, and a session that is open stays so.
* Books: the comment before `getAccountingSummary` says no order leaves
  `completed` for `refunded`, while `completedFilter` includes `refunded` and
  refunds are ledger entries. Movements list completed sales only and do not sum
  to gross. The dashboard's `revenueTodayCents` counts `completed` only, while
  `netRevenueToday` counts both, though `admin-queries.ts` says "so the two
  screens can never quietly disagree". A new exchange rate restates closed days.
* Reports: `NOT_A_SALE` (`conversion-store.ts:15-16`) omits `refunded`, though its
  comment says "Reporting these would count refunds as sales"; so a sale reversed
  after its completion is reported, and `SalesAreReported` says that no other
  called-off sale is. The poller's `refreshOrderStatus` may write a sale that was
  called off back to a status that is reported (`RefreshOrderStatus`). A refused
  token alerts at the first attempt and again at the last, where
  `conversions.ts:18-20` speaks of one alert. Orders that age out of the seven
  days are dropped without one, and an alert lost between `recordFailedAttempt`
  and the send is never repeated.
* Settings: nothing is written if anything in the form is wrong, though bank
  details and rate are said to be "validated independently", and the three saves
  are no transaction. The check digit of a CLABE takes neighbours that differ by
  five for each other, and a card number's 0 and 9, though `isValidClabe` says it
  "catches the transposed or dropped digit"; the number of OXXO is asked for 10 to
  19 digits and nothing else (`payment-settings.ts:132-138`). `PayeeIsReviewed`
  names all three as what gets past, and says that nothing else does.
  Pages opened before a change go on being paid to the old account, and
  `PAY_…` of the environment is not reviewed.

## Proofs

All are for arbitrary sets and bounds, under the modules' named assumptions.
What is not inductive is strengthened; the strengthenings are invariants with
names (those of `FulfillmentInv` are kept in a module of their own, which TLC can
check before they are proved). Every invariant and every action
property that holds in the runs has a theorem, and so have the refinements of
`Ledger`, `LossyLedger` and `Review`. Where a theorem needs more than the specification, the
hypothesis has a name of its own, is about the code's surroundings or about how
actors are scheduled, and says exactly where the property ends.

**Fulfilment** (`SetAssumption`, `BoundAssumption`, and `PriceAssumption`: the
provider's debit is within the tolerance of the price and above it in size).

* `FulfillmentProofs!TypeCorrect`: `TypeOK`, which is inductive as it stands.
  One step per action; `TypeFrame` says which conjuncts a step leaves alone.
* `FulfillmentProofs!LiveCallsGuarded`: `LiveCallsAreGuarded`. It ties the lock
  to the worker's and the sweep's positions, says that the item of a live call
  is `sending` with that call's reading, that what is still to be sent is not
  out already, that the poller only has pending items in hand, and that no
  review is about an item in flight. `LiveCallsAreLeftAlone` follows: nobody
  but the worker settles a live call.
* `FulfillmentProofs!NeverTwice`: `DeliveredOnce`, under `QuietWallet` (nothing
  is paid in, and no call lands after it timed out). One has to know that an
  item which may be sent was not charged. `RetriesAreUncharged` says that, and
  why: for an item whose call is unsettled, the wallet lies below its reading by
  at least its debit if the call landed. Readings only rise above the wallet
  when nothing is paid in, so a verdict of `not_charged` — the wallet within
  tolerance of the reading — contradicts a charge (`ChargeIsSeen`,
  `VerdictSeesCharge`). The lock enters through `LiveCallsAreGuarded`: without
  it a recovery could judge a call that has yet to land. The theorem holds
  across crashes; a crash can make recovery book too much, never send too much.
* `FulfillmentProofs!CompletedOrdersAreWhole`: `CompletedIsWhole`. The writes
  of `completed` all come from stale loads, so `WholeInv` says that whatever
  `completed` is still held in memory by the worker, the sweep or a plan is
  already true of the items (or will be by the plan's own write), and
  `SucceededStays` that items never leave `succeeded`.
* `FulfillmentProofs!RetriesStayBounded`: `RetriesAreBounded`, from `BudgetInv`:
  what the worker holds as still to be sent has attempts to spare, however long
  ago it was loaded, because only reviews and the worker change the count.
* `FulfillmentProofs!LedgerIsKept`: fulfilment implements `Ledger`, under
  `QuietWallet`, in every behaviour of `CallsEnd`: no item is left `sending`
  without the worker at its call. Each step is a step of the ledger or a stutter. `BookedInv`
  says that nobody is about to book an item the customer did not get: a pending
  item was charged, an answer held by the worker agrees with the wallet, a
  review that books an item found it charged. `LedgerIsKeptUnbroken` is the case
  that needs no hypothesis on behaviours: without crashes and exceptions
  `CallsEnd` is an invariant.
* `FulfillmentProofs!LedgerIsKeptThroughCrashes`: fulfilment implements
  `LossyLedger` under `QuietWallet`, with any number of crashes, exceptions,
  retries and reviews. `HonestInv` is what `BookedInv` keeps when calls may be cut
  off: it is about those who are about to book and says nothing of what is booked.
  Only `RecoverItem` books on the strength of a reading alone, and the lock makes
  sure that what it judges is lost (`LiveCallsAreGuarded`).
* `FulfillmentProofs!ReviewsAreAtomic`: fulfilment implements `Review` under
  `QuietWallet`, with crashes and exceptions, reviews being taken one at a time:
  `TwoAdmins` has two of them at once, a quiet wallet, and an item delivered twice. `DeskInv` says what a review holds
  between its load and its commit: an order it found parked, and one item that was
  in doubt or not sent, or all that was left to be sent, with their statuses as
  loaded. If the commit's comparison passes (`CommitRefines`), the action is
  possible on the rows of that moment: what was uncharged still is, and what was
  charged stays so (`RetriesAreUncharged`, `HonestInv`); a resume's items are all
  that is left, as only a review puts an item back, and none of the rest is
  out, because whatever else the order had is delivered, pending or in doubt, and
  the loops send nothing of that. Every other step is `Machine` (`MachineRefines`): rows
  only take the turns of `Works`, and orders those of `Moves`, where `completed`
  needs `WholeInv`.
`OnlyHumansUnpark` and `StoppedOrdersAreNotSent` do not hold of the code and have
no theorem.

**Reconciliation** (`PricesAssumption`, `CatalogAssumption`, `DepositsAssumption`).

* `ReadingsProofs!VerdictsHold`: `VerdictsAreTrue`, for any catalog, debits and
  deposits that the assumptions admit. `ReadingInv` says that the wallet is the
  first reading less what the call took, less what the other call took, plus what
  was paid in; the rest is which of these sums can come within a window. The
  debits fall short of the price by no more than the tolerance and exceed it; the
  windows around two prices do not meet; a deposit is nowhere near a price, nor
  the sum or the difference of two. The last is what an owner has to keep to, and
  where it is broken the verdict is wrong: 0.70 paid in during a purchase of 0.70
  makes it `not_charged`. `FactorsTellApart` shows the second to follow from what
  `reconcile.ts:41` says of the catalog, that its prices are "separated by factors
  of 1.5x or more", as long as they are above four cents.

**Supply** (`SupplyAssumption`, `StockAssumption`: first rows and recipe are rows
of the products; `ListedAssumption`: a provider lists offers of its own). One
inductive invariant, `SupplyInv`, types rows, recipe, items, settings and locks
(`RowsOK` to `LocksOK`) and says what each actor's memory is worth at each of
its points: what the worker loaded (`JobOK`), what a sync, a switch or a save
read (`TasksOK`), and that a denomination, once read with an id, is that id's
still (`HoldsOK`), since no sync gives a stored id another one.

* `SupplyProofs!SupplyTypes`, `DenominationsAreKept` (`DiamondsStay`), and the
  action properties `EvidenceIsKept` (`EvidenceStays`) and `SyncsWaitForOrders`
  (`SyncWaitsForOrders`).

**Payments** (`PaymentAssumption`), for any number of requests.

* `PaymentsProofs!TypesHold`, `PaidOrdersAreQueued` (inductive as it stands:
  every write that takes an order out of fulfilment has a guard that fails on
  `paid`), and `MoneyEventsAreHeard`, whose strengthening `HeardInv` says that a
  request about to mark an event of money has already enqueued or alerted.
* `ReviewIsLeftAlone`: `ReviewedNeverExpires`, whatever the sweep had read.
* `GatewayOrdersAreKept`: `ConfirmedIsKept`, where transfers are not taken. Who
  pays through the gateway cannot reject, upload or cancel (`ByGatewayInv`).
  With transfers a rejection decided early takes a confirmed order back; see
  `MovesDeclared` above.
* `EnqueuedOnceByGateway`: `EnqueuedOnce`, whose premise `PaysAsAsked` is a card, or
  a voucher of which only the amount asked was ever reported. `PaidOnceInv` says
  that the gateway is paid once, `OnceInv` that what is about to be flagged came
  short and what was enqueued is booked as paid. The premise is where
  `flagMismatch` has no guard.

**Storefront** (`StorefrontAssumption` and those of `Catalog` and `Gateways`). One
inductive invariant, `ShopInv`, for any drafts, callers' interleavings and
bounds.

* `StorefrontProofs!StorefrontTypes`; the shape of a caller's request says what
  it has read so far.
* `OrdersAreDelivered` (`OrdersDeliver`), from `SoldHolds`: a request with its
  recipe in hand sells one that delivers what the row it read advertises. What the
  customer's page showed is not compared, in the code or here.
* `OnePlaceEach` (`OneMegaEach`), by the index alone (`OneHeld`); `RoomHolds`
  counts the rows that are left against the requests that may write one.

**Level pass** (`LevelPassAssumption`, `OrdersAreApart`), for any number of
sweeps, admins, players, orders and seasons.

* `LevelPassProofs!LevelPassTypes`: `TypeOK`, from `TypeInv`, which also types
  the job of every sweep and admin at every point it can be at.
* `LevelPassBooked`: every reward is delivered by one order and booked once when
  it is granted, every refund is booked once. `BooksInv` adds what the actors
  hold: a sweep about to place an event saw it reached (`SweepsHold`), one about
  to grant it saw its order delivered and completed orders stay delivered, an
  order exists once it is linked and never before (`LinksInv`), and of the
  admins about to refund an order there is one (`ReversalsHeld`, which the row
  lock gives).
* `LevelPassReports`: what the season's report and the customers' pages pay for
  are the ledger's expenses; a consequence of the former.
* `LevelPassPast`: with one sweep, nobody is credited in a season that is over
  (`SeasonInv`: the season a sweep holds is the current one), and no step takes
  a granted checkpoint back. The assumption is the deployment's one worker, and
  it is needed: a second sweep could close the season in between.
* `LevelPassCounters`: lifetime counters and rankings are the sums of the
  uncancelled transactions, even with several admins on one order. An admin's
  write adds what the transaction it read recorded, and `HeldInv` says that this
  part of the transaction is what it was.
* `LevelPassPoints` and `LevelPassLedger`: `StatsMatch` and `LedgerMatches`,
  under `OrdersApart`: no two admins are at work on one order. Points are written
  as differences to what was read, so the whole transaction must be what it was
  (`HeldExactly`); one admin always satisfies it, two on one order may lose an
  update. That a season's report is the sum of its customers' pages also needs
  that there are finitely many of them.

**Accounts** (the assumptions of the modules), for any number of browsers,
mailboxes, codes, seasons, secrets, time steps, badges, hands, sales and days.
`PartsStep` says that a step of one part leaves the others' rows alone, so each
part has its own inductive invariant:

* `AccountsProofs!AccountsProven`: `SignInsAreProven`. `CodesHold` says that a
  code that let somebody in is a used one, `RequestsHold` and `CookiesHold` that
  every request and cookie on the way is about a mailbox its browser's owner
  reads; `AdminInv` that a time step later than the row's last has opened
  nothing, for whatever secret.
* `AccountsRecorded`: `OnceAndOnRecord`, from `MovesHold` (moves are the
  allowances on record) and `BadgeInv`.
* `AccountsReported`: `SalesAreReported`, from `ReportsInv`. The sweep works on
  tries it read when it began; `BatchHolds` says they are still true, because
  there is one sweep and nobody else writes them, and that what was called off
  before it was read, other than by a reversal, is not in hand; `AlertsHold` counts the alerts against the
  tries, less the one that is due.
* `AccountsStand`: `StatementsStand`, for any sales, hours, costs and rates.
  `BooksInv` says that what counts as sold was completed at an hour that has
  passed and that the refunds of the ledger and the sales called off after
  completion are one to one. Ranges then split (`SalesSplit`, `BookedSplit`), rounding twice
  costs a centavo at most (`RoundedTwice`), refunds are the prices of what went
  back (`RefundsMatch`), and a step that is no entry by hand touches nothing
  within a day that is over (`ClosedDaysStand`). It assumes that a reward costs
  its customer nothing, as `level-pass-store.ts:445` has it.
* `PayeesAreReviewed`: `PayeeIsReviewed`, for every CLABE, card number and number of
  OXXO of the owner. The sum a check digit is made of is a left-to-right `Tally`; a
  wrong digit changes one term of it, and the weights 3, 7, 1 and Luhn's
  doubling tell any two digits apart modulo ten (`WeightsCycle`, `ClabeTells`,
  `CardTells`); a swap is seen unless the two are five apart, or 0 and 9. So
  whatever passes the review is what was meant or one of those swaps
  (`AcceptedAreReviewed`), and `SettingsInv` carries it to what orders were placed
  against.
* `AccountsTypes`: `TypeOK`. `TriesHold` counts a code's misses together with the
  browsers that have read it and not written yet; `ProfilesHold` says that an id
  belongs to one account, which is the unique index; `DisplayHolds` that what is
  displayed was awarded, also by a request that is half-way.

`SumTheorems` has what the sums rest on. A fold over a finite set is unfolded
once (`SumOfParts`); what holds of every finite set is then shown by its least
counterexample (`SetsReached`), as the induction theorems of the library take an
operator that the provers cannot instantiate. Sums of a union, of equal and of
opposite terms, over a bijection and grouped by owner follow.

**Only model-checked.** The liveness properties (`PaidOrdersRest`, `MoneyIsHeard`,
`SlotsAreReleased`, `CompletedIsCredited`, `RewardsArePlaced`): they rest on
fairness, and `ENABLED` is out of the prover's reach.

## Not modelled

* `stuck-payments.ts` and `expireUnpaid` have no callers.
* Signatures, parsing, the wire format of the clients, rendering, uploads and
  path validation: no state.
* Testimonials; several offers of the vault and their order; display names, avatars and password
  hashing: rows replaced as a whole, on which nothing else depends.
* The rate limiter's sliding window and its eviction of idle keys: where it
  matters it is a bound.
* Month ranges, search lists and the counts of orders by status.
* The heartbeat file, the Telegram alerter and start-up. An alert is an event in
  the models that count it (payments, reports) and left out elsewhere.

## What is left

* `Supply` composed with `Fulfillment`'s wallets: what recovery concludes when
  `RowNamesItsCall` fails.
* Which sends of a stopped order are possible after a cut-off halt or a write of
  the sweep, and no others, as `LossyLedger` says it for bookings.
* A second worker for the level pass, whose season may close under a credit.
