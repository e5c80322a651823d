--------------------------- MODULE StorefrontProps ---------------------------
(***************************************************************************)
(* What the shop must not get wrong while its catalogue is edited, its     *)
(* customers come and go, and payments arrive late.                        *)
(***************************************************************************)
EXTENDS Storefront

PaymentStatuses == { "pending", "under_review", "amount_mismatch", "paid", "expired", "failed" }
OrderStatuses == { "pending_payment", "payment_confirmed", "payment_expired", "cancelled" }
Methods   == { "transfer_manual", "card", "oxxo", "spei" }
Providers == { "none", "stripe", "mercadopago" }
Recipes   == { d.recipe : d \in Drafts } \cup { << >> }

\* Where a request is before its order is there, and after.
Before == { "entered", "combo", "recipe", "counting", "pricing", "persist" }
After  == { "store", "attach", "open", "link", "cancel", "mark" }

Editors == { [ at |-> "idle" ], [ at |-> "toggling" ] }
             \cup [ at : { "saving" }, draft : Drafts, on : BOOLEAN ]
Pages == { Away } \cup [ at : { "form", "placing" }, offer : BOOLEAN ]
Calls == [ at : { "idle" } \cup Before \cup After, vault : BOOLEAN, view : Views,
           gateway : Providers, method : Methods \cup { "none" }, paid : BOOLEAN,
           row : Drafts, live : BOOLEAN, recipe : Recipes, price : Nat,
           order : Orders \cup {0} ]
Rows == [ status : OrderStatuses, advertised : Nat, recipe : Recipes,
          method : Methods, payment : PaymentStatuses,
          deadline : { "none", "order", "session", "voucher" }, overdue : BOOLEAN,
          linked : BOOLEAN, deciding : { "no", "confirm", "flag" }, gateway : Providers ]

CatalogueOK ==
  /\ combo \in [ there : BOOLEAN, active : BOOLEAN, draft : Drafts ]
  /\ campaign \in BOOLEAN
  /\ products \in [ Denominations -> [ active : BOOLEAN, costed : BOOLEAN ] ]
  /\ editor \in Editors
CustomerOK ==
  vault \in [ open : BOOLEAN, price : OfferPrices ] /\ signedIn \in BOOLEAN /\ page \in Pages

\* A request past createOrder has its order; the storefront's goes on to the
\* gateway of its button, and the panel's to none.
CallsOK ==
  /\ call \in [ Callers -> Calls ]
  /\ call["web"].at # "mark" /\ call["panel"].at \notin { "entered" } \cup (After \ { "mark" })
  /\ \A c \in Callers :
       /\ call[c].at \in Before \ { "entered" } =>
            /\ call[c].method # "none"
            /\ c = "web" /\ call[c].method # "transfer_manual" => call[c].gateway # "none"
       /\ call[c].at \in { "open", "link" } => call[c].gateway # "none"
       /\ call[c].at \in After => call[c].order # 0 /\ order[call[c].order] # NoOrder
       /\ call[c].at = "link" => order[call[c].order].gateway # "none"

\* The page waits for the request it sent.
WaitingOK == call["web"] # NoCall => page.at = "placing"

\* An order goes on only with its payment, which a comprobante or another amount
\* may put back into a human's hands; a charge is linked only where one was opened.
RowsOK ==
  /\ order \in [ Orders -> Rows \cup { NoOrder } ]
  /\ \A o \in Orders : order[o] # NoOrder =>
       /\ order[o].status = "payment_confirmed" => order[o].payment \in { "paid", "under_review", "amount_mismatch" }
       /\ order[o].linked => order[o].gateway # "none"

\* Types, with what the code relies on without checking.
TypeOK ==
  /\ CatalogueOK /\ CustomerOK /\ CallsOK /\ WaitingOK /\ RowsOK
  /\ used \in [ turn : Nat, visit : Nat ]

\* The Mega Oferta is had once: whatever was counted and whoever placed it,
\* never two of its orders hold the player's place, not even when an order
\* that had lapsed is paid after all (schema.ts, one_mega_oferta_per_player).
OneMegaEach == Indexed => Cardinality(Held) <= 1

\* No order was ever accepted that its recipe falls short of: what it was sold
\* as and the recipe frozen in it agree, although the panel may have replaced
\* the combo between the two reads (ordering.ts, checkRecipe).
OrdersDeliver ==
  \A o \in Orders : order[o] # NoOrder => RecipeOk(order[o].advertised, order[o].recipe)

\* What a gateway's report of a voucher, or a page that asks for one, does to an
\* order that was overdue.
Extended(o) == Charged(o) /\ order[o].overdue /\ ~order'[o].overdue

\* An order nobody pays gives its place back, however it was placed, whatever
\* failed while its payment was opened (ordering-store.ts, DEFAULT_PAYMENT_TTL_MS),
\* unless reports of its voucher keep extending it (gateway-report.ts), which
\* nothing bounds.
SlotsAreReleased ==
  \A o \in Orders : <>[][~Extended(o)]_order => (Unpaid(o) ~> ~Unpaid(o))
=============================================================================
