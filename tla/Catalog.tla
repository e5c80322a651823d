------------------------------ MODULE Catalog ------------------------------
(***************************************************************************)
(* The rules of the shop window: what a combo must be to go on sale        *)
(* (engine/src/catalog-admin.ts), what createOrder checks again            *)
(* (engine/src/ordering.ts), which ways to pay a page offers and what each *)
(* button submits (comprar/[combo]/checkout.tsx), and what a customer is   *)
(* told of an order (adapters/storefront-queries.ts).                      *)
(*                                                                         *)
(* A draft is a combo as the panel writes it: price, advertised diamonds   *)
(* and a recipe, a sequence of base denominations.  Names, badges and      *)
(* wording are left out.                                                   *)
(***************************************************************************)
EXTENDS Gateways, SequencesExt, FiniteSetsExt

CONSTANTS
  Bonus,       \* percent the game adds to every denomination
  Shortfall,   \* diamonds a recipe may lack
  PayTo        \* what the owner configured: the accounts, and the switches

ASSUME CatalogAssumption ==
  /\ Bonus \in Nat /\ Shortfall \in Nat
  /\ PayTo \in [ account : BOOLEAN, spin : BOOLEAN, card : BOOLEAN,
                 transfer : BOOLEAN, oxxo : BOOLEAN ]

\* deliveredDiamonds, in hundredths.
Delivered(recipe) == FoldSeq(LAMBDA d, sum : sum + d * (100 + Bonus), 0, recipe)

\* checkRecipe.
RecipeOk(advertised, recipe) == Delivered(recipe) - 100 * advertised >= -100 * Shortfall

(* reviewComboDraft: the errors; its warnings stop nothing.  products holds *)
(* one row per denomination, the active one when there is one.             *)
DraftErrors(draft, products) ==
     { e \in { "BAD_PRICE" }      : draft.price <= 0 }
  \cup { e \in { "BAD_ADVERTISED" } : draft.advertised <= 0 }
  \cup IF draft.recipe = << >> THEN { "EMPTY_RECIPE" }
     ELSE { e \in { "UNKNOWN_PRODUCT" }  : ~(ToSet(draft.recipe) \subseteq DOMAIN products) }
     \cup { e \in { "INACTIVE_PRODUCT" } :
            \E d \in ToSet(draft.recipe) \cap DOMAIN products : ~products[d].active }
     \cup { e \in { "UNDER_DELIVERS" }   : ~RecipeOk(draft.advertised, draft.recipe) }

CanActivate(draft, products) == DraftErrors(draft, products) = {}

(* createOrder's checks of what it read, up to the caps: only the          *)
(* storefront is held to what is on sale.                                  *)
OrderErrors(source, live, draft, recipe, products) ==
     { e \in { "COMBO_INACTIVE" } : source = "web" /\ ~live }
  \cup IF recipe = << >> THEN { "RECIPE_EMPTY" }
     ELSE { e \in { "RECIPE_UNDER_DELIVERS" } : ~RecipeOk(draft.advertised, recipe) }
     \cup { e \in { "PRODUCT_UNAVAILABLE" } : \E d \in ToSet(recipe) : ~products[d].active }
     \cup { e \in { "CATALOG_NOT_SYNCED" }  : \E d \in ToSet(recipe) : ~products[d].costed }

------------------------------------------------------------------------------
(* The checkout page.                                                      *)

Views == { "choose", "tarjeta", "transferencia", "oxxo" }
WireMethod(view) == CASE view = "tarjeta" -> "card" [] view = "oxxo" -> "oxxo"
                      [] OTHER -> "spei"

\* Mercado Pago's own wins over Stripe's; a card is only ever Stripe's.
Automatic(view) ==
  LET m == WireMethod(view)
  IN  IF m = "card" THEN IF StripeMethods # {} /\ PayTo.card THEN "stripe" ELSE "none"
      ELSE IF m \in MpMethods THEN "mercadopago"
      ELSE IF m \in StripeMethods THEN "stripe" ELSE "none"

\* The boxes of the comparison screen.
Options ==
  { v \in Views \ { "choose" } :
      \/ Automatic(v) # "none"
      \/ v = "transferencia" /\ PayTo.account /\ PayTo.transfer
      \/ v = "oxxo" /\ PayTo.account /\ PayTo.spin /\ PayTo.oxxo }

\* What the confirmation button submits, and what the payment is recorded as.
SubmitsTo(view) == IF Automatic(view) = "none" THEN "transfer" ELSE Automatic(view)
RecordedAs(view) ==
  IF Automatic(view) = "none" THEN "transfer_manual" ELSE WireMethod(view)

------------------------------------------------------------------------------
(* What the customer is told.                                              *)

\* toCustomerStatus.
CustomerStatus(status, underReview) ==
  CASE status = "pending_payment" ->
         IF underReview THEN "pago_en_revision" ELSE "esperando_pago"
    [] status \in { "payment_confirmed", "processing", "partially_delivered" } -> "procesando"
    [] status = "completed" -> "completado"
    [] status \in { "needs_review", "refund_required" } -> "con_problema"
    [] OTHER -> "cancelado"
=============================================================================
