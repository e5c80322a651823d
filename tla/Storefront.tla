----------------------------- MODULE Storefront -----------------------------
(***************************************************************************)
(* The shop: the panel edits a combo and its campaign, a customer's page   *)
(* shows it, and an order is created for it, by the storefront             *)
(* (comprar/[combo]/actions.ts) or by hand (pedidos/nuevo/actions.ts), in  *)
(* one createOrder whose reads are queries of their own.  One combo and    *)
(* one player stand for all: combos share no row, and the cap is per both. *)
(*                                                                         *)
(* What becomes of a payment is Payments' subject; here each of its writes *)
(* is one step, and what matters is which orders hold the player's place.  *)
(* Which provider's row a denomination means is Supply's.                  *)
(***************************************************************************)
EXTENDS Catalog

CONSTANTS
  Denominations,   \* the provider's products
  Drafts,          \* what the panel may write: [price, advertised, recipe]
  OnSale,          \* the one it wrote first
  Cap,             \* combos.max_per_player, 0 for none
  Indexed,         \* the unique index covers this combo: it is the Mega Oferta
  OfferPrices,     \* what the vault offer for it may be priced at
  OnOffer,         \* what it was first
  MaxOrders, MaxVisits,   \* bounds on orders and page loads, and on the edits,
  MaxTurns                \* outside changes and crashes together

ASSUME StorefrontAssumption ==
  /\ Drafts \subseteq [ price : Nat, advertised : Nat, recipe : Seq(Nat) ]
  /\ OnSale \in Drafts /\ RecipeOk(OnSale.advertised, OnSale.recipe)
  /\ Denominations \subseteq Nat /\ Cap \in Nat /\ Indexed \in BOOLEAN
  /\ MaxOrders \in Nat \ {0} /\ MaxTurns \in Nat /\ MaxVisits \in Nat
  /\ OfferPrices \subseteq Nat /\ OnOffer \in OfferPrices

VARIABLES
  combo,      \* its row and recipe
  campaign,   \* its campaign is switched on and the clock within its dates
  products,   \* the products' rows
  editor,     \* the panel's request on the combo
  vault,      \* the vault offer: on sale to the account entitled to it, and its price
  signedIn,   \* the customer's session
  page,       \* the customer's browser
  call,       \* createOrder and what surrounds it, per caller
  order,      \* orders, their items and payments
  used        \* how much of the bounds is spent

catalogue == <<combo, campaign, products, editor>>
customer  == <<vault, signedIn, page>>
vars == <<catalogue, customer, call, order, used>>

Orders  == 1..MaxOrders
Callers == { "web", "panel" }
Spend(what, bound) == used[what] < bound /\ used' = [ used EXCEPT ![what] = @ + 1 ]
Turn  == Spend("turn", MaxTurns)
Visit == Spend("visit", MaxVisits)

NoOrder == [ status |-> "none" ]
NoCall  == [ at |-> "idle", vault |-> FALSE, view |-> "choose", gateway |-> "none",
             method |-> "none", paid |-> FALSE, row |-> OnSale, live |-> FALSE,
             recipe |-> << >>, price |-> 0, order |-> 0 ]
Away    == [ at |-> "away" ]

Init ==
  /\ combo = [ there |-> TRUE, active |-> TRUE, draft |-> OnSale ]
  /\ campaign = TRUE
  /\ products = [ d \in Denominations |-> [ active |-> TRUE, costed |-> TRUE ] ]
  /\ editor = [ at |-> "idle" ]
  /\ vault = [ open |-> TRUE, price |-> OnOffer ]
  /\ signedIn = TRUE
  /\ page = Away
  /\ call = [ c \in Callers |-> NoCall ]
  /\ order = [ o \in Orders |-> NoOrder ]
  /\ used = [ turn |-> 0, visit |-> 0 ]

------------------------------------------------------------------------------
(* What the queries see.                                                   *)

\* liveConditions, and findComboForOrder's own reading of the same.
Live == combo.there /\ combo.active /\ campaign

\* resolveVaultOffer: an offer on sale, and an entitlement that is active by its
\* status and by the clock, whichever of the two was last to be told.
OfferOpens == vault.open

Released == { "cancelled", "payment_expired" }
Holds(o) == order[o].status \notin Released \cup { "none" }
Held == { o \in Orders : Holds(o) }

\* The partial unique index: one row of the Mega Oferta that holds its place.
IndexRefusesNever(o) == FALSE    \* mutant: the query's count is all there is
IndexRefuses(o) == Indexed /\ Held \ {o} # {}

------------------------------------------------------------------------------
(* The panel's catalogue (combos/actions.ts, catalog-admin-store.ts).      *)

Idles == editor.at = "idle"

\* saveCombo in the action: the draft is reviewed against the products; only
\* one that passes may be saved active.
ReviewDraft(d, on) ==
  /\ Idles /\ Turn
  /\ on => CanActivate(d, products)
  /\ editor' = [ at |-> "saving", draft |-> d, on |-> on ]
  /\ UNCHANGED <<combo, campaign, products, customer, call, order>>

\* saveCombo in the store: it throws when a product has gone meanwhile.
SaveCombo ==
  /\ editor.at = "saving" /\ editor' = [ at |-> "idle" ]
  /\ IF \A d \in ToSet(editor.draft.recipe) : d \in Denominations /\ products[d].active
     THEN combo' = [ there |-> TRUE, active |-> editor.on, draft |-> editor.draft ]
     ELSE UNCHANGED combo
  /\ UNCHANGED <<campaign, products, customer, call, order, used>>

\* toggleCombo: on the way on the combo is loaded and reviewed, then switched.
ReviewToggle ==
  /\ Idles /\ combo.there /\ Turn
  /\ CanActivate(combo.draft, products)
  /\ editor' = [ at |-> "toggling" ]
  /\ UNCHANGED <<combo, campaign, products, customer, call, order>>

SetComboActive(on) ==
  /\ combo.there
  /\ IF on THEN editor.at = "toggling" /\ editor' = [ at |-> "idle" ] /\ UNCHANGED used
     ELSE Idles /\ combo.active /\ Turn /\ UNCHANGED editor
  /\ combo' = [ combo EXCEPT !.active = on ]
  /\ UNCHANGED <<campaign, products, customer, call, order>>

DeleteCombo ==
  /\ Idles /\ combo.there /\ Turn
  /\ combo' = [ combo EXCEPT !.there = FALSE ]
  /\ UNCHANGED <<campaign, products, editor, customer, call, order>>

\* saveCampaign, its switch and its dates; retireCampaign, with its combos.
SaveCampaign(live) ==
  /\ Idles /\ Turn
  /\ campaign # live /\ campaign' = live
  /\ UNCHANGED <<combo, products, editor, customer, call, order>>

RetireCampaign ==
  /\ Idles /\ campaign /\ Turn
  /\ campaign' = FALSE
  /\ combo' = [ combo EXCEPT !.active = FALSE ]
  /\ UNCHANGED <<products, editor, customer, call, order>>

------------------------------------------------------------------------------
(* Around it: the clock, the catalogue sync, the seasons, the session.     *)

WindowCloses ==
  /\ campaign /\ Turn /\ campaign' = FALSE
  /\ UNCHANGED <<combo, products, editor, customer, call, order>>

\* A sync withdraws a product, or brings it back.
ProductTurns(d) ==
  /\ Turn
  /\ products' = [ products EXCEPT ![d].active = ~@ ]
  /\ UNCHANGED <<combo, campaign, editor, customer, call, order>>

\* The vault opens for the account, lapses by the clock, is closed by the
\* season's sweep, or its offer is switched.
VaultTurns ==
  /\ Turn /\ vault' = [ vault EXCEPT !.open = ~@ ]
  /\ UNCHANGED <<catalogue, signedIn, page, call, order>>

\* saveVaultOffer: priced below the combo as it is now.  Nothing looks again
\* when the combo is saved, and an open page is not told.
SaveVaultOffer(price, open) ==
  /\ Turn /\ combo.there /\ price < combo.draft.price
  /\ vault' = [ open |-> open, price |-> price ]
  /\ UNCHANGED <<catalogue, signedIn, page, call, order>>

SessionTurns ==
  /\ Turn /\ signedIn' = ~signedIn
  /\ UNCHANGED <<catalogue, vault, page, call, order>>

------------------------------------------------------------------------------
(* The customer's browser (checkout.tsx).                                  *)

\* The page of a combo on sale; a discount is shown only where it resolves.
LoadPage(asked) ==
  /\ page.at \in { "away", "form" } /\ Live /\ Visit
  /\ page' = [ at |-> "form", offer |-> asked /\ signedIn /\ OfferOpens ]
  /\ UNCHANGED <<catalogue, vault, signedIn, call, order>>

Free == { o \in Orders : order[o] = NoOrder }
Room == Cardinality({ c \in Callers : call[c] # NoCall }) < Cardinality(Free)

\* The player found and confirmed and a way to pay chosen, the confirmation
\* button; it is disabled while it is at work.
Submit(view) ==
  /\ page.at = "form" /\ call["web"] = NoCall /\ Room
  /\ page' = [ page EXCEPT !.at = "placing" ]
  /\ call' = [ call EXCEPT !["web"] = [ NoCall EXCEPT !.at = "entered", !.vault = page.offer,
                                                      !.view = view ] ]
  /\ UNCHANGED <<catalogue, vault, signedIn, order, used>>

\* useStripeTabRedirect, the gateway's address known.  A tab opened inside the
\* gesture is sent there, and this page goes on to the order; with none, or a
\* stuck one, this page goes; with one that was closed the form is back.  Away
\* is any other page.
Redirected == IF page.at = "placing" THEN { [ page EXCEPT !.at = "form" ], Away } ELSE {page}

------------------------------------------------------------------------------
(* createOrder (engine/src/ordering.ts, adapters/ordering-store.ts), and   *)
(* what the two actions do before it.                                      *)

At(c, step) == call[c].at = step
GoTo(c, step) == call' = [ call EXCEPT ![c].at = step ]

\* The call is over; a page that waited shows the form again, with an error.
Ends(c) ==
  /\ call' = [ call EXCEPT ![c] = NoCall ]
  /\ page' = IF c = "web" /\ page.at = "placing"
             THEN [ page EXCEPT !.at = "form" ] ELSE page
Refuse(c) == Ends(c) /\ UNCHANGED order

\* placeOrder and payWithGatewayMethod up to createOrder: still on sale, an
\* account to pay into, the player confirmed once more, the session read anew.
Admit ==
  /\ At("web", "entered")
  /\ \/ /\ Live /\ (SubmitsTo(call["web"].view) = "transfer" => PayTo.account)
        /\ call["web"].vault => signedIn
        /\ call' = [ call EXCEPT !["web"] =
                     [ @ EXCEPT !.at = "combo", !.gateway = Automatic(call["web"].view),
                                !.method = RecordedAs(call["web"].view) ] ]
        /\ UNCHANGED <<page, order>>
     \/ Refuse("web")
  /\ UNCHANGED <<catalogue, vault, signedIn, used>>

\* createManualOrder, the player confirmed.
EnterByHand(paid) ==
  /\ call["panel"] = NoCall /\ Room
  /\ call' = [ call EXCEPT !["panel"] =
               [ NoCall EXCEPT !.at = "combo", !.method = "transfer_manual", !.paid = paid ] ]
  /\ UNCHANGED <<catalogue, customer, order, used>>

\* findComboForOrder, its first query ...
FindCombo(c) ==
  /\ At(c, "combo")
  /\ IF combo.there
     THEN /\ call' = [ call EXCEPT ![c] = [ @ EXCEPT !.at = "recipe", !.row = combo.draft,
                                                      !.live = Live ] ]
          /\ UNCHANGED <<page, order>>
     ELSE Refuse(c)
  /\ UNCHANGED <<catalogue, vault, signedIn, used>>

FindRecipeUnchecked(c) ==    \* mutant: the panel checked it
  /\ At(c, "recipe")
  /\ call' = [ call EXCEPT ![c] = [ @ EXCEPT !.at = "counting", !.recipe = combo.draft.recipe ] ]
  /\ UNCHANGED <<page, order, catalogue, vault, signedIn, used>>

\* ... its second, the recipe as it is by then, and every check of both.
FindRecipe(c) ==
  /\ At(c, "recipe")
  /\ LET recipe == IF combo.there THEN combo.draft.recipe ELSE << >>
     IN  IF OrderErrors(c, call[c].live, call[c].row, recipe, products) = {}
         THEN /\ call' = [ call EXCEPT ![c] = [ @ EXCEPT !.at = "counting", !.recipe = recipe ] ]
              /\ UNCHANGED <<page, order>>
         ELSE Refuse(c)
  /\ UNCHANGED <<catalogue, vault, signedIn, used>>

\* countPlayerOrders, against the cap.
CountOrders(c) ==
  /\ At(c, "counting")
  /\ IF Cap > 0 /\ Cardinality(Held) >= Cap THEN Refuse(c)
     ELSE GoTo(c, "pricing") /\ UNCHANGED <<page, order>>
  /\ UNCHANGED <<catalogue, vault, signedIn, used>>

\* The price that is frozen: the row's, or the offer's of by then if it still
\* opens.  What the page showed is not compared.
FreezePrice(c) ==
  /\ At(c, "pricing")
  /\ IF call[c].vault /\ ~OfferOpens THEN Refuse(c)
     ELSE /\ call' = [ call EXCEPT ![c] =
                [ @ EXCEPT !.at = "persist",
                           !.price = IF call[c].vault THEN vault.price ELSE call[c].row.price ] ]
          /\ UNCHANGED <<page, order>>
  /\ UNCHANGED <<catalogue, vault, signedIn, used>>

\* The row, its items and its payment, due at the order's own deadline.
RowOf(c, deadline) ==
  [ status |-> "pending_payment",
    advertised |-> call[c].row.advertised, recipe |-> call[c].recipe,
    method |-> call[c].method, payment |-> "pending", deadline |-> deadline,
    overdue |-> FALSE, linked |-> FALSE, deciding |-> "no", gateway |-> "none" ]

NewOrderUndated(c) == RowOf(c, "none")    \* mutant: nothing writes expires_at
NewOrder(c) == RowOf(c, "order")

\* One transaction; the unique index makes it throw.
Persist(c) ==
  /\ At(c, "persist")
  /\ LET o == Min(Free)
     IN  IF IndexRefuses(o) THEN Refuse(c)
         ELSE /\ order' = [ order EXCEPT ![o] = NewOrder(c) ]
              /\ call' = [ call EXCEPT ![c] =
                    [ @ EXCEPT !.order = o,
                               !.at = CASE c = "panel" -> "mark"
                                        [] c = "web" /\ call[c].method = "transfer_manual" -> "store"
                                        [] OTHER -> "open" ] ]
              /\ UNCHANGED page
  /\ UNCHANGED <<catalogue, vault, signedIn, used>>

------------------------------------------------------------------------------
(* After the order: its comprobante, its charge, or its approval.          *)

\* storeComprobante; on a refusal the order stands.
StoreFile ==
  /\ At("web", "store")
  /\ \/ GoTo("web", "attach") /\ UNCHANGED page
     \/ Ends("web")
  /\ UNCHANGED <<catalogue, vault, signedIn, order, used>>

\* attachComprobante: whatever the payment is by now.
Attach ==
  /\ At("web", "attach")
  /\ order' = [ order EXCEPT ![call["web"].order].payment = "under_review" ]
  /\ call' = [ call EXCEPT !["web"] = NoCall ]
  /\ page' = IF page.at = "placing" THEN Away ELSE page
  /\ UNCHANGED <<catalogue, vault, signedIn, used>>

\* createCharge, at the gateway of the button, which may not answer.
OpenCharge ==
  /\ At("web", "open")
  /\ LET c == call["web"]
     IN  \E http \in { 200, 404 }, url \in BOOLEAN :
           IF Answered(http) = "body" /\ Opens(c.gateway, c.method, c.price, url)
           THEN /\ order' = [ order EXCEPT ![c.order].gateway = c.gateway ]
                /\ GoTo("web", "link")
           ELSE GoTo("web", "cancel") /\ UNCHANGED order
  /\ UNCHANGED <<catalogue, customer, used>>

\* attachGatewayCharge: a pending payment only.  Stripe's session brings its
\* own deadline, Mercado Pago's preference has none.
Link ==
  /\ At("web", "link")
  /\ LET o == call["web"].order
     IN  IF order[o].payment # "pending"
         THEN GoTo("web", "cancel") /\ UNCHANGED <<order, page>>
         ELSE /\ order' = [ order EXCEPT ![o] =
                IF @.gateway = "stripe"
                THEN [ @ EXCEPT !.linked = TRUE, !.deadline = "session", !.overdue = FALSE ]
                ELSE [ @ EXCEPT !.linked = TRUE ] ]
              /\ call' = [ call EXCEPT !["web"] = NoCall ]
              /\ page' \in Redirected
  /\ UNCHANGED <<catalogue, vault, signedIn, used>>

\* rejectPayment refuses what is not a transfer: the order stands.
CancelOpening ==
  /\ At("web", "cancel") /\ Refuse("web")
  /\ UNCHANGED <<catalogue, vault, signedIn, used>>

------------------------------------------------------------------------------
(* The payment: each request loads, decides, and then writes.              *)

Awaiting == { "pending", "under_review", "amount_mismatch" }
Payable(o) == order[o].status # "none" /\ order[o].payment \in Awaiting
Unpaid(o) == order[o].status = "pending_payment" /\ order[o].payment = "pending"

\* approvePayment, loaded and passed; past its deadline only when forced.
Decides(o, forced) == Payable(o) /\ (order[o].overdue => forced)
Deciding(o, what) == [ order EXCEPT ![o].deciding = what ]

\* Another amount than the one asked is flagged, unless an admin forces it.  A
\* card is charged what the session asked for; other money may be any amount.
Decided(o, forced) ==
  { Deciding(o, what) : what \in { "confirm" } \cup
      IF forced \/ order[o].method = "card" THEN {} ELSE { "flag" } }

MarkPaid ==
  /\ At("panel", "mark")
  /\ LET o == call["panel"].order
     IN  order' = IF call["panel"].paid /\ Decides(o, FALSE) THEN Deciding(o, "confirm") ELSE order
  /\ call' = [ call EXCEPT !["panel"] = NoCall ]
  /\ UNCHANGED <<catalogue, customer, used>>

\* approveOrder and releasePayment in the panel.
Approve(o, forced) ==
  /\ Decides(o, forced) /\ order[o].deciding = "no"
  /\ order[o].method # "card" /\ (order[o].method # "transfer_manual" => forced)
  /\ order' \in Decided(o, forced)
  /\ UNCHANGED <<catalogue, customer, call, used>>

\* Mutant: the order goes on, its payment is left for another statement.
ConfirmOrderOnly(o) ==
  /\ order[o].status # "none" /\ order[o].deciding = "confirm"
  /\ order' = [ order EXCEPT ![o].status = "payment_confirmed", ![o].deciding = "no" ]
  /\ UNCHANGED <<catalogue, customer, call, used>>

\* confirmPayment: whatever became of the order, unless its index refuses.
ConfirmPayment(o) ==
  /\ order[o].status # "none" /\ order[o].deciding = "confirm"
  /\ order' = [ order EXCEPT ![o] =
       IF @.payment # "paid" /\ ~(~Holds(o) /\ IndexRefuses(o))
       THEN [ @ EXCEPT !.payment = "paid", !.status = "payment_confirmed", !.deciding = "no" ]
       ELSE [ @ EXCEPT !.deciding = "no" ] ]
  /\ UNCHANGED <<catalogue, customer, call, used>>

\* flagMismatch: the payment, whatever it is by now, and not the order.
FlagMismatch(o) ==
  /\ order[o].status # "none" /\ order[o].deciding = "flag"
  /\ order' = [ order EXCEPT ![o].payment = "amount_mismatch", ![o].deciding = "no" ]
  /\ UNCHANGED <<catalogue, customer, call, used>>

Reject(o) ==
  /\ Payable(o) /\ order[o].method = "transfer_manual"
  /\ order' = [ order EXCEPT ![o].payment = "failed", ![o].status = "cancelled" ]
  /\ UNCHANGED <<catalogue, customer, call, used>>

Expired(o) ==
  order' = [ order EXCEPT ![o].payment = "expired", ![o].status = "payment_expired" ]

\* The expiry sweep, and the deadline: two days, or an hour at Stripe; a
\* voucher's lies past its own last day.
Sweep(o) ==
  /\ Unpaid(o) /\ order[o].overdue /\ Expired(o)
  /\ UNCHANGED <<catalogue, customer, call, used>>

InCall(o) == \E c \in Callers : call[c].order = o
DeadlinePasses(o) ==
  /\ Unpaid(o) /\ ~order[o].overdue /\ order[o].deadline # "none" /\ ~InCall(o)
  /\ order' = [ order EXCEPT ![o].overdue = TRUE ]
  /\ UNCHANGED <<catalogue, customer, call, used>>

------------------------------------------------------------------------------
(* The gateway's reports (gateway-report.ts).  What the customer does on    *)
(* its page is not followed: any answer its gateway can give may come.     *)

Charged(o) == order[o].status # "none" /\ order[o].linked

\* applyGatewayReport and settleGatewayCharge.  A voucher's deadline is counted
\* anew from every report of it.
Apply(o, report) ==
  CASE report.state = "paid" /\ Decides(o, FALSE) -> order' \in Decided(o, FALSE)
    [] report.state \in { "expired", "failed" } /\ Unpaid(o) -> Expired(o)
    [] report.state = "pending" /\ report.voucher /\ order[o].payment = "pending" ->
         order' = [ order EXCEPT ![o].deadline = "voucher", ![o].overdue = FALSE ]
    [] OTHER -> UNCHANGED order

Report(o) ==
  /\ Charged(o) /\ order[o].deciding = "no"
  /\ \E report \in Reports(order[o].gateway, order[o].method) : Apply(o, report)
  /\ order' # order
  /\ UNCHANGED <<catalogue, customer, call, used>>

\* handleCancelledCheckout: back on the combo's page from Stripe's.
CancelCheckout(o) ==
  /\ Charged(o) /\ order[o].gateway = "stripe"
  /\ CustomerStatus(order[o].status, order[o].payment = "under_review") = "esperando_pago"
  /\ ExpireSession(OpenSession) # OpenSession /\ Unpaid(o) /\ Expired(o)
  /\ UNCHANGED <<catalogue, customer, call, used>>

------------------------------------------------------------------------------

\* The server is restarted in the middle of a call; what it wrote stays.
Crash(c) ==
  /\ call[c] # NoCall /\ Turn /\ Refuse(c)
  /\ UNCHANGED <<catalogue, vault, signedIn>>

Panel == \/ \E d \in Drafts, on \in BOOLEAN : ReviewDraft(d, on)
         \/ SaveCombo \/ ReviewToggle \/ DeleteCombo \/ RetireCampaign
         \/ \E on \in BOOLEAN : SetComboActive(on)
         \/ \E live \in BOOLEAN : SaveCampaign(live)
         \/ \E paid \in BOOLEAN : EnterByHand(paid)
Around == \/ WindowCloses \/ VaultTurns \/ SessionTurns
          \/ \E price \in OfferPrices, open \in BOOLEAN : SaveVaultOffer(price, open)
          \/ \E d \in Denominations : ProductTurns(d)
Browser == \/ \E view \in Options : Submit(view)
           \/ \E asked \in BOOLEAN : LoadPage(asked)
Working(c) == \/ FindCombo(c) \/ FindRecipe(c) \/ CountOrders(c)
              \/ FreezePrice(c) \/ Persist(c)
Placing == \/ Admit \/ StoreFile \/ Attach \/ OpenCharge \/ Link
           \/ CancelOpening \/ MarkPaid
Paying(o) == \/ ConfirmPayment(o) \/ FlagMismatch(o) \/ Reject(o) \/ Sweep(o) \/ DeadlinePasses(o)
             \/ Report(o) \/ CancelCheckout(o)
             \/ \E forced \in BOOLEAN : Approve(o, forced)

Next == \/ Panel \/ Around \/ Browser \/ Placing
        \/ \E c \in Callers : Working(c) \/ Crash(c)
        \/ \E o \in Orders : Paying(o)

Spec == Init /\ [][Next]_vars

(***************************************************************************)
(* Fairness: once an order is there its request goes on, time passes, and  *)
(* the worker's sweep comes around to every order, the oldest first.  The  *)
(* gateway and the people promise nothing.                                 *)
(***************************************************************************)
Lapses(o) == DeadlinePasses(o) \/ Sweep(o)
Fairness == WF_vars(Placing) /\ \A o \in Orders : WF_vars(Lapses(o))

FairSpec == Spec /\ Fairness
=============================================================================
