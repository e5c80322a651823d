--------------------------- MODULE StorefrontProofs ---------------------------
(***************************************************************************)
(* What the shop keeps to for any catalogue, caps, number of orders and    *)
(* visits, whatever is edited, restarted or paid late in between: types,   *)
(* one Mega Oferta each, and orders that deliver what they were sold as.   *)
(***************************************************************************)
EXTENDS StorefrontProps, FiniteSetTheorems, WellFoundedInduction, TLAPS

------------------------------------------------------------------------------
(* Types.                                                                  *)

LEMMA NoCallType == NoCall \in Calls
BY StorefrontAssumption DEF NoCall, Calls, Views, Recipes, Providers

\* A button that opens a gateway's page names the gateway.
LEMMA ButtonType ==
  \A v \in Views : /\ Automatic(v) \in Providers
                   /\ RecordedAs(v) \in Methods
                   /\ RecordedAs(v) # "transfer_manual" => Automatic(v) # "none"
BY DEF Automatic, RecordedAs, WireMethod, Providers, Methods, Views

LEMMA NoOrderIsNoRow == NoOrder \notin Rows
BY DEF NoOrder, Rows, OrderStatuses

LEMMA TypeInit == Init => TypeOK
<1> SUFFICES ASSUME Init PROVE TypeOK
  OBVIOUS
<1>1. CatalogueOK
  BY StorefrontAssumption DEF Init, CatalogueOK, Editors
<1>2. CustomerOK
  BY StorefrontAssumption DEF Init, CustomerOK, Pages
<1>3. CallsOK
  BY NoCallType DEF Init, CallsOK, NoCall, Callers, Before, After
<1>4. RowsOK /\ WaitingOK
  BY DEF Init, RowsOK, WaitingOK, Callers
<1> QED
  BY <1>1, <1>2, <1>3, <1>4 DEF Init, TypeOK

\* What an action leaves alone keeps its type.
LEMMA TypeFrame ==
  ASSUME TypeOK
  PROVE  /\ UNCHANGED catalogue => CatalogueOK'
         /\ UNCHANGED customer => CustomerOK'
         /\ UNCHANGED <<call, order>> => CallsOK' /\ RowsOK'
         /\ UNCHANGED order => RowsOK'
         /\ UNCHANGED <<call, page>> => WaitingOK'
         /\ UNCHANGED used => used' \in [ turn : Nat, visit : Nat ]
BY DEF TypeOK, catalogue, CatalogueOK, customer, CustomerOK, CallsOK, RowsOK, WaitingOK

LEMMA SpendType ==
  ASSUME TypeOK, Turn \/ Visit
  PROVE  used' \in [ turn : Nat, visit : Nat ]
BY DEF TypeOK, Turn, Visit, Spend

\* The panel's edits and what happens around touch neither calls nor orders.
LEMMA PanelType ==
  ASSUME TypeOK,
         \/ \E d \in Drafts, on \in BOOLEAN : ReviewDraft(d, on)
         \/ SaveCombo \/ ReviewToggle \/ DeleteCombo \/ RetireCampaign
         \/ \E on \in BOOLEAN : SetComboActive(on)
         \/ \E live \in BOOLEAN : SaveCampaign(live)
         \/ Around
  PROVE  TypeOK'
<1> USE DEF TypeOK, CatalogueOK, CustomerOK
<1>1. CASE \E d \in Drafts, on \in BOOLEAN : ReviewDraft(d, on)
  BY <1>1, TypeFrame, SpendType DEF ReviewDraft, customer, Editors
<1>2. CASE SaveCombo
  <2>0. editor.draft \in Drafts /\ editor.on \in BOOLEAN
    <3>1. editor \in [ at : { "saving" }, draft : Drafts, on : BOOLEAN ]
      BY <1>2 DEF SaveCombo, Editors
    <3> QED BY <3>1
  <2>1. combo' \in [ there : BOOLEAN, active : BOOLEAN, draft : Drafts ]
    <3>1. \/ combo' = combo
          \/ combo' = [ there |-> TRUE, active |-> editor.on, draft |-> editor.draft ]
      BY <1>2 DEF SaveCombo
    <3>2. combo \in [ there : BOOLEAN, active : BOOLEAN, draft : Drafts ]
      OBVIOUS
    <3> HIDE DEF TypeOK, CatalogueOK, CustomerOK
    <3>3. CASE combo' = [ there |-> TRUE, active |-> editor.on, draft |-> editor.draft ]
      BY <2>0, <3>3
    <3> QED BY <3>1, <3>2, <3>3
  <2> QED
    BY <1>2, <2>1, TypeFrame DEF SaveCombo, customer, Editors
<1>3. CASE ReviewToggle
  BY <1>3, TypeFrame, SpendType DEF ReviewToggle, customer, Editors
<1>4. CASE DeleteCombo
  BY <1>4, TypeFrame, SpendType DEF DeleteCombo, customer
<1>5. CASE RetireCampaign
  BY <1>5, TypeFrame, SpendType DEF RetireCampaign, customer
<1>6. CASE \E on \in BOOLEAN : SetComboActive(on)
  BY <1>6, TypeFrame, SpendType DEF SetComboActive, customer, Editors
<1>7. CASE \E live \in BOOLEAN : SaveCampaign(live)
  BY <1>7, TypeFrame, SpendType DEF SaveCampaign, customer
<1>8. CASE Around
  <2>1. CASE WindowCloses
    BY <2>1, TypeFrame, SpendType DEF WindowCloses, customer
  <2>2. CASE VaultTurns
    BY <2>2, TypeFrame, SpendType DEF VaultTurns, catalogue
  <2>3. CASE SessionTurns
    BY <2>3, TypeFrame, SpendType DEF SessionTurns, catalogue
  <2>4. ASSUME NEW d \in Denominations, ProductTurns(d) PROVE TypeOK'
    BY <2>4, TypeFrame, SpendType DEF ProductTurns, customer
  <2>5. ASSUME NEW price \in OfferPrices, NEW open \in BOOLEAN, SaveVaultOffer(price, open)
        PROVE  TypeOK'
    BY <2>5, TypeFrame, SpendType DEF SaveVaultOffer, catalogue
  <2> QED
    BY <1>8, <2>1, <2>2, <2>3, <2>4, <2>5 DEF Around
<1> QED
  BY <1>1, <1>2, <1>3, <1>4, <1>5, <1>6, <1>7, <1>8

\* A call that moves on with the orders as they are.
LEMMA CallMoves ==
  ASSUME TypeOK, NEW c \in Callers, NEW f \in Calls, call' = [ call EXCEPT ![c] = f ],
         UNCHANGED order, f.at \notin After,
         f.at = "entered" => c = "web",
         f.at \in Before \ { "entered" } =>
            f.method # "none" /\ (c = "web" /\ f.method # "transfer_manual" => f.gateway # "none")
  PROVE  CallsOK' /\ RowsOK'
BY TypeFrame DEF TypeOK, CallsOK, Callers, Before, After

\* A call that ends lets its page go on.
LEMMA CallEnds ==
  ASSUME TypeOK, NEW c \in Callers, Ends(c)
  PROVE  WaitingOK' /\ (UNCHANGED <<vault, signedIn>> => CustomerOK')
BY DEF TypeOK, CustomerOK, WaitingOK, CallsOK, Ends, Pages, Away, Callers

LEMMA Refused ==
  ASSUME TypeOK, NEW c \in Callers, Refuse(c), UNCHANGED <<vault, signedIn>>
  PROVE  CallsOK' /\ RowsOK' /\ CustomerOK' /\ WaitingOK'
<1>1. CallsOK' /\ RowsOK'
  BY NoCallType, CallMoves DEF Refuse, Ends, NoCall, After, Before
<1> QED BY <1>1, CallEnds DEF Refuse

LEMMA WorkingType ==
  ASSUME TypeOK, NEW c \in Callers,
         \/ Admit \/ FindCombo(c) \/ FindRecipe(c) \/ CountOrders(c) \/ FreezePrice(c) \/ Crash(c)
  PROVE  TypeOK'
<1>1. CASE Crash(c)
  BY <1>1, Refused, TypeFrame, SpendType DEF Crash, TypeOK
<1>2. CASE Admit
  <2>1. CASE Refuse("web")
    BY <1>2, <2>1, Refused, TypeFrame DEF Admit, TypeOK, Callers
  <2>2. CASE ~Refuse("web")
    <3> DEFINE f == [ call["web"] EXCEPT !.at = "combo", !.gateway = Automatic(call["web"].view),
                                         !.method = RecordedAs(call["web"].view) ]
    <3>1. call["web"] \in Calls /\ call["web"].view \in Views
      BY DEF TypeOK, CallsOK, Callers, Calls
    <3>2. f \in Calls
      BY <3>1, ButtonType DEF Calls, Before
    <3>3. f.at = "combo" /\ f.method # "none"
          /\ (f.method # "transfer_manual" => f.gateway # "none")
      BY <3>1, ButtonType DEF Calls, Methods
    <3>4. call' = [ call EXCEPT !["web"] = f ] /\ UNCHANGED <<order, page>>
      BY <1>2, <2>2 DEF Admit
    <3>5. CallsOK' /\ RowsOK'
      BY <3>2, <3>3, <3>4, CallMoves DEF Callers, After
    <3>6. call["web"] # NoCall
      BY <1>2 DEF Admit, At, NoCall
    <3> QED BY <1>2, <3>4, <3>5, <3>6, TypeFrame DEF Admit, TypeOK, customer, WaitingOK
  <2> QED BY <2>1, <2>2
<1>3. ASSUME NEW f, f = [ call[c] EXCEPT !.at = f.at, !.row = f.row, !.live = f.live,
                                         !.recipe = f.recipe, !.price = f.price ],
             call[c].at \in Before \ { "entered" }, f.at \in Before \ { "entered" },
             f.row \in Drafts, f.live \in BOOLEAN, f.recipe \in Recipes, f.price \in Nat,
             call' = [ call EXCEPT ![c] = f ],
             UNCHANGED <<catalogue, page, vault, signedIn, order, used>>
      PROVE  TypeOK'
  <2>1. call[c] \in Calls
    BY DEF TypeOK, CallsOK
  <2>2. f \in Calls /\ f.method = call[c].method /\ f.gateway = call[c].gateway
    BY <1>3, <2>1 DEF Calls
  <2>3. CallsOK' /\ RowsOK'
    BY <1>3, <2>2, CallMoves DEF TypeOK, CallsOK, Before, After
  <2>4. WaitingOK'
    BY <1>3 DEF TypeOK, WaitingOK, NoCall, Before, CallsOK
  <2> QED BY <1>3, <2>3, <2>4, TypeFrame DEF TypeOK, customer
<1>4. CASE FindCombo(c)
  <2>1. CASE combo.there
    <3> DEFINE f == [ call[c] EXCEPT !.at = "recipe", !.row = combo.draft, !.live = Live ]
    <3>1. call[c] \in Calls /\ combo.draft \in Drafts /\ Live \in BOOLEAN
      BY DEF TypeOK, CallsOK, CatalogueOK, Live
    <3>2. /\ f = [ call[c] EXCEPT !.at = f.at, !.row = f.row, !.live = f.live,
                                  !.recipe = f.recipe, !.price = f.price ]
          /\ f.at = "recipe" /\ f.row \in Drafts /\ f.live \in BOOLEAN
          /\ f.recipe \in Recipes /\ f.price \in Nat
      BY <3>1 DEF Calls
    <3> QED BY <1>3, <1>4, <2>1, <3>2 DEF FindCombo, At, Before
  <2>2. CASE ~combo.there
    BY <1>4, <2>2, Refused, TypeFrame DEF FindCombo, TypeOK
  <2> QED BY <2>1, <2>2
<1>5. CASE FindRecipe(c)
  <2> DEFINE recipe == IF combo.there THEN combo.draft.recipe ELSE << >>
             f == [ call[c] EXCEPT !.at = "counting", !.recipe = recipe ]
  <2>1. CASE ~Refuse(c)
    <3>1. call[c] \in Calls /\ recipe \in Recipes
      BY DEF TypeOK, CallsOK, CatalogueOK, Recipes
    <3>2. /\ f = [ call[c] EXCEPT !.at = f.at, !.row = f.row, !.live = f.live,
                                  !.recipe = f.recipe, !.price = f.price ]
          /\ f.at = "counting" /\ f.row \in Drafts /\ f.live \in BOOLEAN
          /\ f.recipe \in Recipes /\ f.price \in Nat
      BY <3>1 DEF Calls
    <3>3. call' = [ call EXCEPT ![c] = f ] /\ UNCHANGED <<page, order>>
      BY <1>5, <2>1 DEF FindRecipe
    <3> QED BY <1>3, <1>5, <3>2, <3>3 DEF FindRecipe, At, Before
  <2>2. CASE Refuse(c)
    BY <1>5, <2>2, Refused, TypeFrame DEF FindRecipe, TypeOK
  <2> QED BY <2>1, <2>2
<1>6. CASE CountOrders(c)
  <2> DEFINE f == [ call[c] EXCEPT !.at = "pricing" ]
  <2>1. CASE ~Refuse(c)
    <3>1. call[c] \in Calls
      BY DEF TypeOK, CallsOK
    <3>2. /\ f = [ call[c] EXCEPT !.at = f.at, !.row = f.row, !.live = f.live,
                                  !.recipe = f.recipe, !.price = f.price ]
          /\ f.at = "pricing" /\ f.row \in Drafts /\ f.live \in BOOLEAN
          /\ f.recipe \in Recipes /\ f.price \in Nat
      BY <3>1 DEF Calls
    <3>3. call' = [ call EXCEPT ![c] = f ] /\ UNCHANGED <<page, order>>
      BY <1>6, <2>1, <3>1 DEF CountOrders, GoTo, TypeOK, CallsOK
    <3> QED BY <1>3, <1>6, <3>2, <3>3 DEF CountOrders, At, Before
  <2>2. CASE Refuse(c)
    BY <1>6, <2>2, Refused, TypeFrame DEF CountOrders, TypeOK
  <2> QED BY <2>1, <2>2
<1>7. CASE FreezePrice(c)
  <2> DEFINE price == IF call[c].vault THEN vault.price ELSE call[c].row.price
             f == [ call[c] EXCEPT !.at = "persist", !.price = price ]
  <2>1. CASE ~Refuse(c)
    <3>0. call[c] \in Calls /\ vault.price \in OfferPrices
      BY DEF TypeOK, CallsOK, CustomerOK
    <3>01. call[c].row \in Drafts
      BY <3>0 DEF Calls
    <3>02. call[c].row.price \in Nat /\ vault.price \in Nat
      BY <3>0, <3>01, StorefrontAssumption
    <3>1. call[c] \in Calls /\ price \in Nat
      BY <3>0, <3>02
    <3>2. /\ f = [ call[c] EXCEPT !.at = f.at, !.row = f.row, !.live = f.live,
                                  !.recipe = f.recipe, !.price = f.price ]
          /\ f.at = "persist" /\ f.row \in Drafts /\ f.live \in BOOLEAN
          /\ f.recipe \in Recipes /\ f.price \in Nat
      BY <3>1 DEF Calls
    <3>3. call' = [ call EXCEPT ![c] = f ] /\ UNCHANGED <<page, order>>
      BY <1>7, <2>1 DEF FreezePrice
    <3> QED BY <1>3, <1>7, <3>2, <3>3 DEF FreezePrice, At, Before
  <2>2. CASE Refuse(c)
    BY <1>7, <2>2, Refused, TypeFrame DEF FreezePrice, TypeOK
  <2> QED BY <2>1, <2>2
<1> QED BY <1>1, <1>2, <1>4, <1>5, <1>6, <1>7
------------------------------------------------------------------------------
(* There is room for every order that is on its way.                       *)

\* A set of numbers has a least.
LEMMA LeastOf ==
  ASSUME NEW S \in SUBSET Nat, S # {}
  PROVE  Min(S) \in S
<1> DEFINE R == OpToRel(<, Nat)
<1>1. IsWellFoundedOn(R, Nat)
  BY NatLessThanWellFounded
<1>2. \A x, y \in Nat : y < x => <<y, x>> \in R
  BY DEF OpToRel
<1> HIDE DEF R
<1>3. PICK x \in S : \A y \in S : ~ (<<y, x>> \in R)
  BY <1>1, WFMin
<1>4. ASSUME NEW y \in S PROVE x <= y
  <2>1. x \in Nat /\ y \in Nat
    OBVIOUS
  <2>2. ~ (y < x)
    BY <1>2, <1>3, <2>1
  <2> QED BY <2>1, <2>2
<1> QED BY <1>4 DEF Min

Begun == { c \in Callers : call[c].at \in Before }

\* No request is let in that would find no row left to write.
RoomHolds == Cardinality(Begun) <= Cardinality(Free)

LEMMA Finite == /\ IsFiniteSet(Begun) /\ IsFiniteSet(Free) /\ IsFiniteSet(Callers)
                /\ Cardinality(Begun) \in Nat /\ Cardinality(Free) \in Nat
<1>1. IsFiniteSet(Callers)
  <2>1. IsFiniteSet({ "web" }) /\ Callers = { "web" } \cup { "panel" }
    BY FS_Singleton DEF Callers
  <2> QED BY <2>1, FS_AddElement
<1>2. IsFiniteSet(Orders)
  BY FS_Interval, StorefrontAssumption DEF Orders
<1>3. Begun \in SUBSET Callers /\ Free \in SUBSET Orders
  BY DEF Begun, Free
<1> QED BY <1>1, <1>2, <1>3, FS_Subset, FS_CardinalityType

\* A request about to write its order has a row to write.
LEMMA RoomLeft ==
  ASSUME RoomHolds, NEW c \in Callers, call[c].at \in Before
  PROVE  Min(Free) \in Orders /\ order[Min(Free)] = NoOrder
<1>1. Begun # {}
  BY DEF Begun
<1>2. Cardinality(Begun) # 0
  BY <1>1, Finite, FS_EmptySet
<1>3. Free # {}
  BY <1>2, Finite, FS_EmptySet DEF RoomHolds
<1>4. Free \in SUBSET Nat
  BY StorefrontAssumption DEF Free, Orders
<1> QED BY <1>3, <1>4, LeastOf DEF Free

\* Rows are only ever taken by the requests that began, one each.
LEMMA RoomStays ==
  ASSUME RoomHolds, Begun' \subseteq Begun, Free' = Free
  PROVE  RoomHolds'
<1>1. Cardinality(Begun') <= Cardinality(Begun) /\ Cardinality(Begun') \in Nat
  BY Finite, FS_Subset, FS_CardinalityType
<1> QED BY <1>1, Finite DEF RoomHolds

LEMMA RoomTaken ==
  ASSUME RoomHolds, NEW c \in Begun, Begun' = Begun \ {c},
         NEW o \in Free, Free' = Free \ {o}
  PROVE  RoomHolds'
<1>1. Cardinality(Begun') = Cardinality(Begun) - 1
  BY Finite, FS_RemoveElement
<1>2. Cardinality(Free') = Cardinality(Free) - 1
  BY Finite, FS_RemoveElement
<1> QED BY <1>1, <1>2, Finite DEF RoomHolds

LEMMA RoomGiven ==
  ASSUME TypeOK, Room, NEW c \in Callers, Begun' = Begun \cup {c}, Free' = Free
  PROVE  RoomHolds'
<1> DEFINE Busy == { d \in Callers : call[d] # NoCall }
<1>1. IsFiniteSet(Busy) /\ Begun \subseteq Busy
  <2>1. Begun \subseteq Busy
    BY DEF Begun, Before, NoCall
  <2> QED BY <2>1, Finite, FS_Subset
<1>2. Cardinality(Begun) <= Cardinality(Busy) /\ Cardinality(Busy) \in Nat
  BY <1>1, FS_Subset, FS_CardinalityType
<1>3. Cardinality(Begun') <= Cardinality(Begun) + 1 /\ Cardinality(Begun') \in Nat
  <2>1. IsFiniteSet(Begun) /\ Cardinality(Begun) \in Nat
    BY Finite, FS_CardinalityType
  <2>2. Cardinality(Begun') = Cardinality(Begun) \/ Cardinality(Begun') = Cardinality(Begun) + 1
    BY <2>1, FS_AddElement
  <2> QED BY <2>1, <2>2
<1>4. Cardinality(Busy) < Cardinality(Free)
  BY DEF Room
<1> HIDE DEF Busy
<1> QED BY <1>2, <1>3, <1>4, Finite DEF RoomHolds

\* The row an order is created with.
LEMMA NewOrderType ==
  ASSUME TypeOK, NEW c \in Callers, call[c].at = "persist"
  PROVE  /\ NewOrder(c) \in Rows
         /\ NewOrder(c).status = "pending_payment" /\ ~NewOrder(c).linked
         /\ NewOrder(c).advertised = call[c].row.advertised
         /\ NewOrder(c).recipe = call[c].recipe
<1>1. call[c] \in Calls /\ call[c].method \in Methods
  BY DEF TypeOK, CallsOK, Before, Calls
<1>2. call[c].row.advertised \in Nat
  BY <1>1, StorefrontAssumption DEF Calls
<1> QED BY <1>1, <1>2
        DEF NewOrder, RowOf, Rows, OrderStatuses, PaymentStatuses, Calls, Providers

LEMMA PersistType ==
  ASSUME TypeOK, RoomHolds, NEW c \in Callers, Persist(c)
  PROVE  TypeOK'
<1> DEFINE o == Min(Free)
           at == CASE c = "panel" -> "mark"
                   [] c = "web" /\ call[c].method = "transfer_manual" -> "store"
                   [] OTHER -> "open"
           f == [ call[c] EXCEPT !.order = o, !.at = at ]
<1>1. CASE Refuse(c)
  BY <1>1, Refused, TypeFrame DEF Persist, TypeOK
<1>2. CASE ~Refuse(c)
  <2>1. /\ call[c].at = "persist" /\ order' = [ order EXCEPT ![o] = NewOrder(c) ]
        /\ call' = [ call EXCEPT ![c] = f ]
        /\ UNCHANGED <<page, catalogue, vault, signedIn, used>>
    BY <1>2 DEF Persist, At
  <2>2. o \in Orders /\ order[o] = NoOrder
    BY <2>1, RoomLeft DEF Before
  <2>3. call[c] \in Calls
    BY DEF TypeOK, CallsOK
  <2>4. /\ NewOrder(c) \in Rows /\ NewOrder(c) # NoOrder
        /\ NewOrder(c).status = "pending_payment" /\ ~NewOrder(c).linked
    BY <2>1, NewOrderType, NoOrderIsNoRow
  <2>5. at \in After /\ at # "link" /\ (c = "panel" <=> at = "mark")
    BY DEF After, Callers
  <2>6. f \in Calls /\ f.order = o /\ f.at = at /\ f.gateway = call[c].gateway
    BY <2>2, <2>3, <2>5 DEF Calls
  <2>7. at = "open" => call[c].gateway # "none"
    BY <2>1 DEF TypeOK, CallsOK, Before, Callers
  <2> HIDE DEF o, at, f
  <2>8. \A k \in Orders : order[k] # NoOrder => order'[k] = order[k]
    BY <2>1, <2>2 DEF TypeOK, RowsOK
  <2>9. order'[o] = NewOrder(c) /\ o # 0
    BY <2>1, <2>2 DEF TypeOK, RowsOK, Orders
  <2>10. RowsOK'
    BY <2>1, <2>2, <2>4, <2>8, <2>9 DEF TypeOK, RowsOK
  <2>11. \A d \in Callers : call[d].at \in After => call[d].order \in Orders
    BY DEF TypeOK, CallsOK, Calls
  <2>12. CallsOK'
    <3>1. call' \in [ Callers -> Calls ]
      BY <2>1, <2>6 DEF TypeOK, CallsOK
    <3>2. \A d \in Callers : d # c => call'[d] = call[d]
      BY <2>1 DEF TypeOK, CallsOK
    <3>3. call'[c] = f
      BY <2>1 DEF TypeOK, CallsOK
    <3> QED
      BY <2>4, <2>5, <2>6, <2>7, <2>8, <2>9, <2>11, <3>1, <3>2, <3>3
      DEF TypeOK, CallsOK, Callers, Before, After
  <2>13. WaitingOK'
    BY <2>1 DEF TypeOK, WaitingOK, NoCall, CallsOK
  <2> QED BY <2>1, <2>10, <2>12, <2>13, TypeFrame DEF TypeOK, customer
<1> QED BY <1>1, <1>2

\* Writing a row that is there.
LEMMA RowWritten ==
  ASSUME TypeOK, NEW o \in Orders, order[o] # NoOrder, NEW r \in Rows,
         order' = [ order EXCEPT ![o] = r ],
         r.status = "payment_confirmed" => r.payment \in { "paid", "under_review", "amount_mismatch" },
         r.linked => r.gateway # "none",
         order[o].gateway # "none" => r.gateway # "none",
         UNCHANGED call
  PROVE  CallsOK' /\ RowsOK'
<1>1. \A k \in Orders : order[k] # NoOrder <=> order'[k] # NoOrder
  BY NoOrderIsNoRow DEF TypeOK, RowsOK
<1>2. RowsOK'
  BY <1>1 DEF TypeOK, RowsOK
<1>3. \A c \in Callers : call[c].at \in After => call[c].order \in Orders
  BY DEF TypeOK, CallsOK, Calls
<1>4. \A k \in Orders : order[k].gateway # "none" => order'[k].gateway # "none"
  BY DEF TypeOK, RowsOK
<1> QED
  BY <1>1, <1>2, <1>3, <1>4 DEF TypeOK, CallsOK, After

\* What a decision, an expiry or a gateway's report writes, however old what it
\* was decided on.
LEMMA PayingRows ==
  ASSUME TypeOK, NEW o \in Orders, Paying(o)
  PROVE  /\ order[o] # NoOrder
         /\ \E r \in Rows :
              /\ order' = [ order EXCEPT ![o] = r ]
              /\ r.status = "payment_confirmed" => r.payment \in { "paid", "under_review", "amount_mismatch" }
              /\ r.linked = order[o].linked /\ r.gateway = order[o].gateway
              /\ r.recipe = order[o].recipe /\ r.advertised = order[o].advertised
              /\ Holds(o) \/ r.status \in Released \/ ~IndexRefuses(o)
         /\ UNCHANGED <<catalogue, customer, call, used>>
<1> DEFINE Fine(r) ==
              /\ r \in Rows /\ order' = [ order EXCEPT ![o] = r ]
              /\ r.status = "payment_confirmed" => r.payment \in { "paid", "under_review", "amount_mismatch" }
              /\ r.linked = order[o].linked /\ r.gateway = order[o].gateway
              /\ r.recipe = order[o].recipe /\ r.advertised = order[o].advertised
              /\ Holds(o) \/ r.status \in Released \/ ~IndexRefuses(o)
<1>0. order[o] # NoOrder /\ UNCHANGED <<catalogue, customer, call, used>>
  BY DEF Paying, ConfirmPayment, FlagMismatch, Reject, Sweep, DeadlinePasses, Report, CancelCheckout, Approve,
     Decides, Payable, Unpaid, Charged, NoOrder
<1>1. order[o] \in Rows /\ order \in [ Orders -> Rows \cup { NoOrder } ]
  BY <1>0 DEF TypeOK, RowsOK
<1>2. order[o].status = "payment_confirmed" => order[o].payment \in { "paid", "under_review", "amount_mismatch" }
  BY <1>0 DEF TypeOK, RowsOK
<1>21. Holds(o) \/ order[o].status \in Released
  BY <1>1, NoOrderIsNoRow, <1>0 DEF Holds, Rows, OrderStatuses
<1>3. CASE order' = order
  <2>1. Fine(order[o])
    BY <1>1, <1>2, <1>21, <1>3
  <2> QED BY <1>0, <2>1
<1>4. CASE \E forced \in BOOLEAN : order' \in Decided(o, forced)
  <2>1. PICK what \in { "confirm", "flag" } : order' = Deciding(o, what)
    BY <1>4 DEF Decided
  <2>2. Fine([ order[o] EXCEPT !.deciding = what ])
    BY <1>1, <1>2, <1>21, <2>1 DEF Deciding, Rows
  <2> QED BY <1>0, <2>2
<1>5. CASE Expired(o)
  <2>1. Fine([ order[o] EXCEPT !.payment = "expired", !.status = "payment_expired" ])
    BY <1>1, <1>2, <1>21, <1>5 DEF Released, Expired, Rows, PaymentStatuses, OrderStatuses
  <2> QED BY <1>0, <2>1
<1>6. CASE ConfirmPayment(o)
  <2>1. \/ Fine([ order[o] EXCEPT !.payment = "paid", !.status = "payment_confirmed",
                                  !.deciding = "no" ])
        \/ Fine([ order[o] EXCEPT !.deciding = "no" ])
    BY <1>1, <1>2, <1>21, <1>6 DEF ConfirmPayment, Rows, PaymentStatuses, OrderStatuses
  <2> QED BY <1>0, <2>1
<1>7. CASE Reject(o)
  <2>1. Fine([ order[o] EXCEPT !.payment = "failed", !.status = "cancelled" ])
    BY <1>1, <1>2, <1>21, <1>7 DEF Released, Reject, Rows, PaymentStatuses, OrderStatuses
  <2> QED BY <1>0, <2>1
<1>8. CASE DeadlinePasses(o)
  <2>1. Fine([ order[o] EXCEPT !.overdue = TRUE ])
    BY <1>1, <1>2, <1>21, <1>8 DEF DeadlinePasses, Rows
  <2> QED BY <1>0, <2>1
<1>9. CASE Report(o)
  <2>1. \/ order' = order \/ order' \in Decided(o, FALSE) \/ Expired(o)
        \/ order' = [ order EXCEPT ![o].deadline = "voucher", ![o].overdue = FALSE ]
    BY <1>9 DEF Report, Apply
  <2>2. CASE order' = [ order EXCEPT ![o].deadline = "voucher", ![o].overdue = FALSE ]
    <3>1. Fine([ order[o] EXCEPT !.deadline = "voucher", !.overdue = FALSE ])
      BY <1>1, <1>2, <1>21, <2>2 DEF Rows
    <3> QED BY <1>0, <3>1
  <2> QED BY <1>3, <1>4, <1>5, <2>1, <2>2
<1>10. CASE FlagMismatch(o)
  <2>1. Fine([ order[o] EXCEPT !.payment = "amount_mismatch", !.deciding = "no" ])
    BY <1>1, <1>2, <1>21, <1>10 DEF FlagMismatch, Rows, PaymentStatuses
  <2> QED BY <1>0, <2>1
<1> QED
  BY <1>3, <1>4, <1>5, <1>6, <1>7, <1>8, <1>9, <1>10
  DEF Paying, Sweep, CancelCheckout, Approve

LEMMA PayingType ==
  ASSUME TypeOK, NEW o \in Orders, Paying(o)
  PROVE  TypeOK'
<1>1. PICK r \in Rows :
              /\ order' = [ order EXCEPT ![o] = r ]
              /\ r.status = "payment_confirmed" => r.payment \in { "paid", "under_review", "amount_mismatch" }
              /\ r.linked = order[o].linked /\ r.gateway = order[o].gateway
  BY PayingRows
<1>2. order[o] # NoOrder /\ UNCHANGED <<catalogue, customer, call, used>>
  BY PayingRows
<1>3. order[o].linked => order[o].gateway # "none"
  BY <1>2 DEF TypeOK, RowsOK
<1>4. CallsOK' /\ RowsOK'
  BY <1>1, <1>2, <1>3, RowWritten
<1> QED BY <1>2, <1>4, TypeFrame DEF TypeOK, customer

\* A call that goes on with the order it has, or is over.
LEMMA CallGoesOn ==
  ASSUME TypeOK, NEW c \in Callers, call[c].at \in After, NEW at,
         \/ call' = [ call EXCEPT ![c] = NoCall ] /\ at = "idle"
         \/ /\ call' = [ call EXCEPT ![c].at = at ] /\ c = "web"
            /\ \/ at \in { "attach", "cancel" }
               \/ at = "link" /\ order'[call[c].order].gateway # "none"
                              /\ call[c].at = "open",
         RowsOK',
         \A k \in Orders : order[k] # NoOrder => order'[k] # NoOrder,
         \A k \in Orders : order[k] # NoOrder /\ order[k].gateway # "none"
                              => order'[k].gateway # "none"
  PROVE  CallsOK'
<1>1. call \in [ Callers -> Calls ] /\ call[c] \in Calls
  BY DEF TypeOK, CallsOK
<1>2. \A d \in Callers : call[d].at \in After => call[d].order \in Orders
  BY <1>1 DEF TypeOK, CallsOK, Calls
<1>3. \A d \in Callers : d # c => call'[d] = call[d]
  BY <1>1
<1>4. CASE call' = [ call EXCEPT ![c] = NoCall ]
  <2>1. call' \in [ Callers -> Calls ] /\ call'[c].at = "idle"
    BY <1>1, <1>4, NoCallType DEF NoCall
  <2> QED
    BY <1>2, <1>3, <2>1 DEF TypeOK, CallsOK, Before, After, Callers
<1>5. CASE /\ call' = [ call EXCEPT ![c].at = at ] /\ c = "web"
           /\ \/ at \in { "attach", "cancel" }
              \/ at = "link" /\ order'[call[c].order].gateway # "none"
                             /\ call[c].at = "open"
  <2>1. /\ call' \in [ Callers -> Calls ] /\ call'[c].at = at
        /\ call'[c].order = call[c].order /\ call'[c].gateway = call[c].gateway
    BY <1>1, <1>5 DEF Calls, After
  <2> QED
    BY <1>2, <1>3, <1>5, <2>1 DEF TypeOK, CallsOK, Before, After, Callers
<1> QED BY <1>4, <1>5

LEMMA PlacingType ==
  ASSUME TypeOK,
         StoreFile \/ Attach \/ OpenCharge \/ Link \/ CancelOpening \/ MarkPaid
  PROVE  TypeOK'
<1> USE DEF At, GoTo
<1>0. /\ order \in [ Orders -> Rows \cup { NoOrder } ] /\ call \in [ Callers -> Calls ]
      /\ page \in Pages /\ RowsOK
  BY DEF TypeOK, RowsOK, CallsOK, CustomerOK
<1>00. ASSUME NEW c \in Callers, call[c].at \in After
       PROVE  /\ call[c] \in Calls /\ call[c].order \in Orders
              /\ order[call[c].order] \in Rows /\ order[call[c].order] # NoOrder
  BY <1>0, <1>00 DEF TypeOK, CallsOK, Calls
<1>1. CASE StoreFile
  <2>1. CASE Ends("web")
    BY <1>1, <2>1, Refused, TypeFrame DEF StoreFile, Refuse, TypeOK, Callers
  <2>2. CASE call' = [ call EXCEPT !["web"].at = "attach" ] /\ UNCHANGED page
    <3>1. CallsOK'
      BY <1>0, <1>1, <2>2, CallGoesOn, TypeFrame DEF StoreFile, After, Callers
    <3>2. WaitingOK'
      BY <1>1, <2>2 DEF StoreFile, TypeOK, WaitingOK, NoCall
    <3> QED BY <1>1, <2>2, <3>1, <3>2, TypeFrame DEF StoreFile, TypeOK, customer
  <2> QED BY <1>1, <2>1, <2>2 DEF StoreFile
<1>2. CASE Attach
  <2> DEFINE o == call["web"].order
             r == [ order[o] EXCEPT !.payment = "under_review" ]
  <2>1. o \in Orders /\ order[o] \in Rows /\ order[o] # NoOrder
    BY <1>00, <1>2 DEF Attach, After, Callers
  <2>2. /\ r \in Rows /\ order' = [ order EXCEPT ![o] = r ]
        /\ r.payment = "under_review" /\ r.linked = order[o].linked
        /\ r.gateway = order[o].gateway
    BY <1>0, <1>2, <2>1 DEF Attach, Rows, PaymentStatuses
  <2> HIDE DEF r
  <2>3. RowsOK' /\ \A k \in Orders : /\ order[k] # NoOrder => order'[k] # NoOrder
                                     /\ order'[k].gateway = order[k].gateway
    BY <1>0, <2>1, <2>2, NoOrderIsNoRow DEF RowsOK
  <2>4. CallsOK'
    BY <1>2, <2>3, CallGoesOn DEF Attach, After, Callers
  <2>5. CustomerOK' /\ WaitingOK'
    BY <1>0, <1>2 DEF Attach, TypeOK, CustomerOK, WaitingOK, Pages, Away, Callers
  <2> QED BY <1>2, <2>3, <2>4, <2>5, TypeFrame DEF Attach, TypeOK
<1>3. CASE OpenCharge
  <2> DEFINE o == call["web"].order
             r == [ order[o] EXCEPT !.gateway = call["web"].gateway ]
  <2>1. /\ o \in Orders /\ order[o] \in Rows /\ order[o] # NoOrder
        /\ call["web"].gateway \in Providers /\ call["web"].gateway # "none"
    BY <1>00, <1>3 DEF OpenCharge, After, Callers, TypeOK, CallsOK, Calls
  <2>2. /\ r \in Rows /\ r.gateway # "none" /\ r.linked = order[o].linked
        /\ r.status = order[o].status /\ r.payment = order[o].payment
    BY <2>1 DEF Rows
  <2>3. CASE /\ order' = [ order EXCEPT ![o].gateway = call["web"].gateway ]
             /\ call' = [ call EXCEPT !["web"].at = "link" ]
    <3>1. order' = [ order EXCEPT ![o] = r ]
      BY <1>0, <2>1, <2>3
    <3> HIDE DEF r
    <3>2. /\ RowsOK' /\ order'[o].gateway # "none"
          /\ \A k \in Orders : /\ order[k] # NoOrder => order'[k] # NoOrder
                               /\ order[k] # NoOrder /\ order[k].gateway # "none"
                                     => order'[k].gateway # "none"
      BY <1>0, <2>1, <2>2, <3>1, NoOrderIsNoRow DEF RowsOK
    <3>3. CallsOK'
      <4>1. call["web"].at \in After /\ call["web"].at = "open" /\ "web" \in Callers
        BY <1>3 DEF OpenCharge, After, Callers
      <4> DEFINE at == "link"
      <4>2. /\ call' = [ call EXCEPT !["web"].at = at ] /\ at = "link"
            /\ order'[call["web"].order].gateway # "none"
        BY <2>3, <3>2
      <4> HIDE DEF at
      <4> QED BY <3>2, <4>1, <4>2, CallGoesOn
    <3>4. WaitingOK'
      BY <1>3 DEF OpenCharge, customer, TypeOK, WaitingOK, NoCall
    <3> QED BY <1>3, <3>2, <3>3, <3>4, TypeFrame DEF OpenCharge, TypeOK
  <2>4. CASE call' = [ call EXCEPT !["web"].at = "cancel" ] /\ UNCHANGED order
    <3>1. CallsOK'
      <4>1. call["web"].at \in After /\ "web" \in Callers
        BY <1>3 DEF OpenCharge, After, Callers
      <4>2. RowsOK'
        BY <1>0, <2>4, TypeFrame DEF TypeOK
      <4> DEFINE at == "cancel"
      <4>3. call' = [ call EXCEPT !["web"].at = at ] /\ at \in { "attach", "cancel" }
        BY <2>4
      <4> HIDE DEF at
      <4> QED BY <1>0, <2>4, <4>1, <4>2, <4>3, CallGoesOn
    <3>2. WaitingOK'
      BY <1>3 DEF OpenCharge, customer, TypeOK, WaitingOK, NoCall
    <3> QED BY <1>3, <2>4, <3>1, <3>2, TypeFrame DEF OpenCharge, TypeOK
  <2> QED BY <1>3, <2>3, <2>4 DEF OpenCharge
<1>4. CASE Link
  <2> DEFINE o == call["web"].order
             r == IF order[o].gateway = "stripe"
                  THEN [ order[o] EXCEPT !.linked = TRUE, !.deadline = "session",
                                         !.overdue = FALSE ]
                  ELSE [ order[o] EXCEPT !.linked = TRUE ]
  <2>1. /\ o \in Orders /\ order[o] \in Rows /\ order[o] # NoOrder
        /\ order[o].gateway # "none"
    BY <1>00, <1>4 DEF Link, After, Callers, TypeOK, CallsOK
  <2>2. CASE call' = [ call EXCEPT !["web"].at = "cancel" ] /\ UNCHANGED <<order, page>>
    <3>1. CallsOK'
      BY <1>0, <1>4, <2>2, CallGoesOn, TypeFrame DEF Link, After, Callers
    <3>2. WaitingOK'
      BY <1>4, <2>2 DEF Link, TypeOK, WaitingOK, NoCall
    <3> QED BY <1>4, <2>2, <3>1, <3>2, TypeFrame DEF Link, TypeOK, customer
  <2>3. CASE /\ order' = [ order EXCEPT ![o] = r ]
             /\ call' = [ call EXCEPT !["web"] = NoCall ] /\ page' \in Redirected
    <3>1. /\ r \in Rows /\ r.gateway = order[o].gateway
          /\ r.status = order[o].status /\ r.payment = order[o].payment
      BY <2>1 DEF Rows
    <3> HIDE DEF r
    <3>2. /\ RowsOK'
          /\ \A k \in Orders : /\ order[k] # NoOrder => order'[k] # NoOrder
                               /\ order'[k].gateway = order[k].gateway
      BY <1>0, <2>1, <2>3, <3>1, NoOrderIsNoRow DEF RowsOK
    <3>3. CallsOK'
      BY <1>4, <2>3, <3>2, CallGoesOn DEF Link, After, Callers
    <3>4. CustomerOK' /\ WaitingOK'
      BY <1>0, <1>4, <2>3 DEF Link, Redirected, TypeOK, CustomerOK, WaitingOK, Pages, Away,
         Callers
    <3> QED BY <1>4, <3>2, <3>3, <3>4, TypeFrame DEF Link, TypeOK
  <2> QED BY <1>4, <2>2, <2>3 DEF Link
<1>5. CASE CancelOpening
  BY <1>5, Refused, TypeFrame DEF CancelOpening, TypeOK, Callers
<1>6. CASE MarkPaid
  <2> DEFINE o == call["panel"].order
             r == [ order[o] EXCEPT !.deciding = "confirm" ]
  <2>1. o \in Orders /\ order[o] \in Rows /\ order[o] # NoOrder
    BY <1>00, <1>6 DEF MarkPaid, After, Callers
  <2>2. /\ r \in Rows /\ r.gateway = order[o].gateway /\ r.linked = order[o].linked
        /\ r.status = order[o].status /\ r.payment = order[o].payment
    BY <2>1 DEF Rows
  <2>3. order' = order \/ order' = [ order EXCEPT ![o] = r ]
    BY <1>0, <1>6, <2>1 DEF MarkPaid, Deciding
  <2> HIDE DEF r
  <2>4. /\ RowsOK'
        /\ \A k \in Orders : /\ order[k] # NoOrder => order'[k] # NoOrder
                             /\ order'[k].gateway = order[k].gateway
    BY <1>0, <2>1, <2>2, <2>3, NoOrderIsNoRow DEF RowsOK
  <2>5. CallsOK'
    BY <1>6, <2>4, CallGoesOn DEF MarkPaid, After, Callers
  <2>6. WaitingOK'
    BY <1>0, <1>6 DEF MarkPaid, customer, TypeOK, WaitingOK, Callers
  <2> QED BY <1>6, <2>4, <2>5, <2>6, TypeFrame DEF MarkPaid, TypeOK
<1> QED BY <1>1, <1>2, <1>3, <1>4, <1>5, <1>6

LEMMA BrowserType ==
  ASSUME TypeOK, Browser \/ \E paid \in BOOLEAN : EnterByHand(paid)
  PROVE  TypeOK'
<1>1. ASSUME NEW view \in Options, Submit(view) PROVE TypeOK'
  <2> DEFINE f == [ NoCall EXCEPT !.at = "entered", !.vault = page.offer, !.view = view ]
  <2>1. page \in Pages /\ page.at = "form"
    BY <1>1 DEF TypeOK, CustomerOK, Submit
  <2>2. page.offer \in BOOLEAN /\ page' \in Pages /\ page'.at = "placing"
    BY <1>1, <2>1 DEF Submit, Pages, Away
  <2>3. f \in Calls /\ f.at = "entered"
    BY <2>2, NoCallType DEF Calls, NoCall, Before, Options
  <2>4. call' = [ call EXCEPT !["web"] = f ] /\ UNCHANGED order
    BY <1>1 DEF Submit
  <2>5. CallsOK' /\ RowsOK'
    BY <2>3, <2>4, CallMoves DEF Callers, After
  <2>6. CustomerOK' /\ WaitingOK'
    BY <1>1, <2>2 DEF Submit, TypeOK, CustomerOK, WaitingOK
  <2> QED BY <1>1, <2>5, <2>6, TypeFrame DEF Submit, TypeOK
<1>2. ASSUME NEW asked \in BOOLEAN, LoadPage(asked) PROVE TypeOK'
  <2>1. page' \in Pages
    <3>1. signedIn \in BOOLEAN /\ vault.open \in BOOLEAN
      BY DEF TypeOK, CustomerOK
    <3> QED BY <1>2, <3>1 DEF LoadPage, Pages, OfferOpens
  <2>2. WaitingOK'
    BY <1>2 DEF LoadPage, TypeOK, WaitingOK
  <2> QED
    BY <1>2, <2>1, <2>2, TypeFrame, SpendType DEF LoadPage, TypeOK, CustomerOK
<1>3. ASSUME NEW paid \in BOOLEAN, EnterByHand(paid) PROVE TypeOK'
  <2> DEFINE f == [ NoCall EXCEPT !.at = "combo", !.method = "transfer_manual", !.paid = paid ]
  <2>1. f \in Calls /\ f.at = "combo" /\ f.method # "none"
    BY NoCallType DEF Calls, NoCall, Before, Methods
  <2>2. call' = [ call EXCEPT !["panel"] = f ] /\ UNCHANGED order
    BY <1>3 DEF EnterByHand
  <2>3. CallsOK' /\ RowsOK'
    BY <2>1, <2>2, CallMoves DEF Callers, After
  <2>4. WaitingOK'
    BY <1>3 DEF EnterByHand, customer, TypeOK, WaitingOK, Callers, CallsOK
  <2> QED
    BY <1>3, <2>3, <2>4, TypeFrame DEF EnterByHand, TypeOK
<1> QED BY <1>1, <1>2, <1>3 DEF Browser

LEMMA TypeStep == TypeOK /\ RoomHolds /\ [Next]_vars => TypeOK'
<1>1. ASSUME TypeOK, UNCHANGED vars PROVE TypeOK'
  <2>1. UNCHANGED <<catalogue, customer, call, order, used, page>>
    BY <1>1 DEF vars, customer
  <2> QED BY <1>1, <2>1, TypeFrame DEF TypeOK
<1> QED
  BY <1>1, PanelType, WorkingType, PersistType, PlacingType, PayingType, BrowserType
  DEF Next, Panel, Around, Working, Placing, Callers

\* What follows createOrder writes to its own order alone, and neither what was
\* sold nor the order's status; no request begins or is priced by it.
Same(k) ==
  IF order[k] = NoOrder THEN order'[k] = NoOrder
  ELSE /\ order'[k] # NoOrder /\ order'[k].status = order[k].status
       /\ order'[k].recipe = order[k].recipe /\ order'[k].advertised = order[k].advertised

LEMMA PlacingKeeps ==
  ASSUME TypeOK,
         StoreFile \/ Attach \/ OpenCharge \/ Link \/ CancelOpening \/ MarkPaid
  PROVE  /\ \A k \in Orders : Same(k)
         /\ \E c \in Callers : /\ call[c].at \in After /\ call'[c].at \notin Before
                               /\ \A d \in Callers : d # c => call'[d] = call[d]
<1>0. call \in [ Callers -> Calls ] /\ order \in [ Orders -> Rows \cup { NoOrder } ]
  BY DEF TypeOK, CallsOK, RowsOK
<1>1. ASSUME NEW o \in Orders, order[o] # NoOrder,
             NEW r, r \in Rows, order' = [ order EXCEPT ![o] = r ],
             r.status = order[o].status,
             r.recipe = order[o].recipe, r.advertised = order[o].advertised
      PROVE  \A k \in Orders : Same(k)
  BY <1>0, <1>1, NoOrderIsNoRow DEF Same
<1>2. UNCHANGED order => \A k \in Orders : Same(k)
  BY DEF Same
<1>3. ASSUME NEW c \in Callers, call[c].at \in After
      PROVE  call[c].order \in Orders /\ order[call[c].order] \in Rows
             /\ order[call[c].order] # NoOrder /\ call[c].gateway \in Providers
  BY <1>0, <1>3 DEF TypeOK, CallsOK, Calls
<1>4. CASE MarkPaid
  <2> DEFINE o == call["panel"].order
             r == [ order[o] EXCEPT !.deciding = "confirm" ]
  <2>1. call["panel"].at \in After /\ call' = [ call EXCEPT !["panel"] = NoCall ]
    BY <1>4 DEF MarkPaid, At, After
  <2>2. o \in Orders /\ order[o] \in Rows /\ order[o] # NoOrder
    BY <1>3, <2>1 DEF Callers
  <2>3. order' = order \/ order' = [ order EXCEPT ![o] = r ]
    BY <1>0, <1>4, <2>2 DEF MarkPaid, Deciding
  <2>4. /\ r \in Rows /\ r.status = order[o].status /\ r.recipe = order[o].recipe
        /\ r.advertised = order[o].advertised
    BY <2>2 DEF Rows
  <2> HIDE DEF r, o
  <2>5. \A k \in Orders : Same(k)
    BY <1>1, <1>2, <2>2, <2>3, <2>4
  <2> QED BY <1>0, <2>1, <2>5 DEF Callers, NoCall, Before
<1>5. CASE StoreFile \/ CancelOpening
  <2>1. call["web"].at \in After /\ UNCHANGED order
    BY <1>5 DEF StoreFile, CancelOpening, At, Refuse, After
  <2>2. call' = [ call EXCEPT !["web"] = NoCall ] \/ call' = [ call EXCEPT !["web"].at = "attach" ]
    BY <1>5 DEF StoreFile, CancelOpening, GoTo, Refuse, Ends
  <2> QED BY <1>0, <1>2, <2>1, <2>2 DEF Callers, After, Before, NoCall, Calls
<1>6. CASE Attach \/ OpenCharge \/ Link
  <2> DEFINE o == call["web"].order
  <2>1. call["web"].at \in After
    BY <1>6 DEF Attach, OpenCharge, Link, At, After
  <2>2. \/ call' = [ call EXCEPT !["web"] = NoCall ]
        \/ call' = [ call EXCEPT !["web"].at = "link" ]
        \/ call' = [ call EXCEPT !["web"].at = "cancel" ]
    BY <1>6 DEF Attach, OpenCharge, Link, GoTo
  <2>3. /\ o \in Orders /\ order[o] \in Rows /\ order[o] # NoOrder
        /\ call["web"].gateway \in Providers
    BY <1>3, <2>1 DEF Callers
  <2>4. \/ UNCHANGED order
        \/ order' = [ order EXCEPT ![o] = [ @ EXCEPT !.payment = "under_review" ] ]
        \/ order' = [ order EXCEPT ![o] = [ @ EXCEPT !.gateway = call["web"].gateway ] ]
        \/ order' = [ order EXCEPT ![o] = [ @ EXCEPT !.linked = TRUE ] ]
        \/ order' = [ order EXCEPT ![o] =
                        [ @ EXCEPT !.linked = TRUE, !.deadline = "session", !.overdue = FALSE ] ]
    <3>1. CASE Attach
      BY <3>1 DEF Attach
    <3>2. CASE OpenCharge
      BY <3>2 DEF OpenCharge
    <3>3. CASE Link
      BY <3>3 DEF Link
    <3> QED BY <1>6, <3>1, <3>2, <3>3
  <2>5. \A k \in Orders : Same(k)
    <3>1. CASE order' = [ order EXCEPT ![o] = [ @ EXCEPT !.payment = "under_review" ] ]
      BY <1>1, <2>3, <3>1 DEF Rows, PaymentStatuses
    <3>2. CASE order' = [ order EXCEPT ![o] = [ @ EXCEPT !.gateway = call["web"].gateway ] ]
      BY <1>1, <2>3, <3>2 DEF Rows
    <3>3. CASE order' = [ order EXCEPT ![o] = [ @ EXCEPT !.linked = TRUE ] ]
      BY <1>1, <2>3, <3>3 DEF Rows
    <3>4. CASE order' = [ order EXCEPT ![o] =
                [ @ EXCEPT !.linked = TRUE, !.deadline = "session", !.overdue = FALSE ] ]
      BY <1>1, <2>3, <3>4 DEF Rows
    <3> QED BY <1>2, <2>4, <3>1, <3>2, <3>3, <3>4
  <2> QED BY <1>0, <2>1, <2>2, <2>5 DEF Callers, After, Before, NoCall, Calls
<1> QED BY <1>4, <1>5, <1>6

\* A step lets at most one request begin or leave, and takes at most one row.
LEMMA RoomStep ==
  ASSUME TypeOK, RoomHolds, [Next]_vars
  PROVE  RoomHolds'
<1>1. CASE UNCHANGED <<call, order>>
  BY <1>1, RoomStays DEF Begun, Free
<1>2. ASSUME NEW c \in Callers, Persist(c), ~Refuse(c) PROVE RoomHolds'
  <2> DEFINE o == Min(Free)
  <2>1. c \in Begun
    BY <1>2 DEF Persist, At, Begun, Before
  <2>2. o \in Free
    BY <2>1, RoomLeft DEF Begun, Free
  <2>3. order' = [ order EXCEPT ![o] = NewOrder(c) ] /\ NewOrder(c) # NoOrder
    BY <1>2, NewOrderType, NoOrderIsNoRow DEF Persist, At
  <2>4. Free' = Free \ {o}
    BY <2>2, <2>3 DEF Free, TypeOK, RowsOK
  <2>5. /\ call \in [ Callers -> Calls ] /\ \A d \in Callers : d # c => call'[d] = call[d]
        /\ call'[c].at \in { "mark", "store", "open" }
    <3>1. call \in [ Callers -> Calls ]
      BY DEF TypeOK, CallsOK
    <3> DEFINE at == CASE c = "panel" -> "mark"
                       [] c = "web" /\ call[c].method = "transfer_manual" -> "store"
                       [] OTHER -> "open"
    <3>2. call' = [ call EXCEPT ![c] = [ @ EXCEPT !.order = o, !.at = at ] ]
      BY <1>2 DEF Persist
    <3>3. at \in { "mark", "store", "open" }
      BY DEF Callers
    <3> HIDE DEF at, o
    <3> QED BY <3>1, <3>2, <3>3 DEF Calls
  <2>6. Begun' = Begun \ {c}
    BY <2>5 DEF Begun, Before
  <2> QED BY <2>1, <2>2, <2>4, <2>6, RoomTaken
<1>3. ASSUME NEW c \in Callers, call' = [ call EXCEPT ![c] = call'[c] ], UNCHANGED order,
             call[c].at \in Before \/ call'[c].at \notin Before
      PROVE  RoomHolds'
  <2>1. Free' = Free /\ Begun' \subseteq Begun
    BY <1>3 DEF Begun, Free, TypeOK, CallsOK
  <2> QED BY <2>1, RoomStays
<1>4. ASSUME NEW c \in Callers, Refuse(c) PROVE RoomHolds'
  <2>1. call \in [ Callers -> Calls ] /\ call' = [ call EXCEPT ![c] = NoCall ] /\ UNCHANGED order
    BY <1>4 DEF Refuse, Ends, TypeOK, CallsOK
  <2>2. call'[c].at \notin Before /\ call' = [ call EXCEPT ![c] = call'[c] ]
    BY <2>1 DEF NoCall, Before
  <2> QED BY <1>3, <2>1, <2>2
<1>5. ASSUME NEW c \in Callers, Working(c) \/ Crash(c) PROVE RoomHolds'
  <2>1. ASSUME ~Refuse(c), ~Persist(c), Working(c) PROVE RoomHolds'
    <3>1. /\ call' = [ call EXCEPT ![c] = call'[c] ] /\ UNCHANGED order
          /\ call[c].at \in Before
      BY <2>1 DEF Working, FindCombo, FindRecipe, CountOrders, FreezePrice, At, GoTo, Before,
         TypeOK, CallsOK
    <3> QED BY <1>3, <3>1
  <2> QED BY <1>2, <1>4, <1>5, <2>1 DEF Crash
<1>6. CASE Admit
  <2>1. ASSUME ~Refuse("web") PROVE RoomHolds'
    <3>1. /\ call' = [ call EXCEPT !["web"] = call'["web"] ] /\ UNCHANGED order
          /\ call["web"].at \in Before /\ "web" \in Callers
      BY <1>6, <2>1 DEF Admit, At, Before, TypeOK, CallsOK, Callers
    <3> QED BY <1>3, <3>1
  <2> QED BY <1>4, <2>1 DEF Callers
<1>7. ASSUME \/ \E view \in Options : Submit(view)
             \/ \E paid \in BOOLEAN : EnterByHand(paid)
      PROVE  RoomHolds'
  <2> DEFINE Enters(c, f) == /\ f.at \in Before /\ call' = [ call EXCEPT ![c] = f ]
                             /\ Room /\ UNCHANGED order
  <2>0. \E c \in Callers : \E f : Enters(c, f)
    <3>1. ASSUME NEW view \in Options, Submit(view)
          PROVE  \E c \in Callers : \E f : Enters(c, f)
      <4> DEFINE f == [ NoCall EXCEPT !.at = "entered", !.vault = page.offer, !.view = view ]
      <4>1. f.at \in Before /\ call' = [ call EXCEPT !["web"] = f ]
        BY <3>1 DEF Submit, NoCall, Before
      <4> HIDE DEF f
      <4> QED BY <3>1, <4>1 DEF Submit, Callers
    <3>2. ASSUME NEW paid \in BOOLEAN, EnterByHand(paid)
          PROVE  \E c \in Callers : \E f : Enters(c, f)
      <4> DEFINE f == [ NoCall EXCEPT !.at = "combo", !.method = "transfer_manual", !.paid = paid ]
      <4>1. f.at \in Before /\ call' = [ call EXCEPT !["panel"] = f ]
        BY <3>2 DEF EnterByHand, NoCall, Before
      <4> HIDE DEF f
      <4> QED BY <3>2, <4>1 DEF EnterByHand, Callers
    <3> HIDE DEF Enters
    <3> QED BY <1>7, <3>1, <3>2
  <2>1. PICK c \in Callers : \E f : Enters(c, f)
    BY <2>0
  <2>2. Free' = Free /\ Begun' = Begun \cup {c}
    BY <2>1 DEF Free, Begun, TypeOK, CallsOK
  <2> QED BY <2>1, <2>2, RoomGiven
<1>8. ASSUME NEW o \in Orders, Paying(o) PROVE RoomHolds'
  <2>1. /\ order[o] # NoOrder /\ UNCHANGED call
        /\ \E r \in Rows : order' = [ order EXCEPT ![o] = r ]
    BY <1>8, PayingRows
  <2>2. Free' = Free /\ Begun' = Begun
    BY <2>1, NoOrderIsNoRow DEF Free, Begun, TypeOK, RowsOK
  <2> QED BY <2>2, RoomStays
<1>9. CASE StoreFile \/ Attach \/ OpenCharge \/ Link \/ CancelOpening \/ MarkPaid
  <2>1. Free' = Free /\ Begun' \subseteq Begun
    BY <1>9, PlacingKeeps DEF Same, Free, Begun
  <2> QED BY <2>1, RoomStays
<1>10. CASE UNCHANGED vars
  BY <1>1, <1>10 DEF vars
<1>11. CASE \/ \E d \in Drafts, on \in BOOLEAN : ReviewDraft(d, on)
            \/ SaveCombo \/ ReviewToggle \/ DeleteCombo \/ RetireCampaign
            \/ \E on \in BOOLEAN : SetComboActive(on)
            \/ \E live \in BOOLEAN : SaveCampaign(live)
  <2>1. UNCHANGED <<call, order>>
    BY <1>11 DEF ReviewDraft, SaveCombo, ReviewToggle, DeleteCombo, RetireCampaign,
       SetComboActive, SaveCampaign
  <2> QED BY <1>1, <2>1
<1>12. CASE Around \/ \E asked \in BOOLEAN : LoadPage(asked)
  <2>1. UNCHANGED <<call, order>>
    BY <1>12 DEF Around, WindowCloses, VaultTurns, SaveVaultOffer, SessionTurns,
     ProductTurns, LoadPage
  <2> QED BY <1>1, <2>1
<1> QED BY <1>5, <1>6, <1>7, <1>8, <1>9, <1>10, <1>11, <1>12 DEF Next, Panel, Browser, Placing

------------------------------------------------------------------------------
(* What is sold.                                                           *)

\* A request that has its recipe sells one that delivers.
SoldHolds ==
  \A c \in Callers : call[c].at \in { "counting", "pricing", "persist" } =>
                         RecipeOk(call[c].row.advertised, call[c].recipe)

\* The orders that hold the Mega Oferta's place are one.
OneHeld == Indexed => \A a, b \in Held : a = b

ShopInv == TypeOK /\ RoomHolds /\ SoldHolds /\ OrdersDeliver /\ OneHeld

LEMMA ShopInit == Init => ShopInv
<1> SUFFICES ASSUME Init PROVE ShopInv
  OBVIOUS
<1>1. RoomHolds
  <2>1. Begun = {}
    BY DEF Begun, Init, NoCall, Before
  <2> QED BY <2>1, Finite, FS_EmptySet DEF RoomHolds
<1>2. SoldHolds
  BY DEF Init, SoldHolds, NoCall, Callers
<1>3. OrdersDeliver /\ OneHeld
  BY DEF Init, OrdersDeliver, OneHeld, Held, Holds, NoOrder
<1> QED BY <1>1, <1>2, <1>3, TypeInit DEF ShopInv

\* The steps, by what they touch.
Edits == \/ \E d \in Drafts, on \in BOOLEAN : ReviewDraft(d, on)
         \/ SaveCombo \/ ReviewToggle \/ DeleteCombo \/ RetireCampaign
         \/ \E on \in BOOLEAN : SetComboActive(on)
         \/ \E live \in BOOLEAN : SaveCampaign(live)
         \/ Around \/ \E asked \in BOOLEAN : LoadPage(asked)
Follows == StoreFile \/ Attach \/ OpenCharge \/ Link \/ CancelOpening \/ MarkPaid

LEMMA StepKinds ==
  ASSUME [Next]_vars
  PROVE  \/ UNCHANGED vars \/ Edits
         \/ \E view \in Options : Submit(view)
         \/ \E paid \in BOOLEAN : EnterByHand(paid)
         \/ \E c \in Callers : Working(c) \/ Crash(c)
         \/ Admit \/ Follows
         \/ \E o \in Orders : Paying(o)
BY DEF Next, Panel, Browser, Placing, Edits, Follows

LEMMA EditsAside == Edits => UNCHANGED <<call, order>>
BY DEF Edits, ReviewDraft, SaveCombo, ReviewToggle, DeleteCombo, RetireCampaign,
   SetComboActive, SaveCampaign, Around, WindowCloses, VaultTurns, SaveVaultOffer, SessionTurns,
     ProductTurns,
   LoadPage

\* A refused request is over, whatever it was at.
LEMMA RefuseEnds ==
  ASSUME TypeOK, NEW c \in Callers, Refuse(c)
  PROVE  /\ UNCHANGED order /\ call' = [ call EXCEPT ![c] = NoCall ]
         /\ call'[c] = NoCall /\ \A d \in Callers : d # c => call'[d] = call[d]
BY DEF Refuse, Ends, TypeOK, CallsOK

\* Only a step of createOrder writes rows that were not there, and none writes
\* what was sold again.
Kept(k) == /\ order[k] # NoOrder /\ order'[k].recipe = order[k].recipe
           /\ order'[k].advertised = order[k].advertised

LEMMA RowsStep ==
  ASSUME TypeOK, [Next]_vars, NEW k \in Orders
  PROVE  \/ order'[k] = NoOrder
         \/ Kept(k)
         \/ \E c \in Callers : call[c].at = "persist" /\ order'[k] = NewOrder(c)
<1>1. UNCHANGED order => order'[k] = NoOrder \/ Kept(k)
  BY DEF Kept
<1>2. CASE UNCHANGED vars
  BY <1>1, <1>2 DEF vars
<1>3. CASE Edits
  BY <1>1, <1>3, EditsAside
<1>4. CASE (\E view \in Options : Submit(view)) \/ \E paid \in BOOLEAN : EnterByHand(paid)
  BY <1>1, <1>4 DEF Submit, EnterByHand
<1>5. ASSUME NEW c \in Callers, Working(c) \/ Crash(c)
      PROVE  \/ order'[k] = NoOrder \/ Kept(k)
             \/ call[c].at = "persist" /\ order'[k] = NewOrder(c)
  <2>1. \/ UNCHANGED order
        \/ /\ call[c].at = "persist"
           /\ order' = [ order EXCEPT ![Min(Free)] = NewOrder(c) ]
    BY <1>5 DEF Working, Crash, FindCombo, FindRecipe, CountOrders, FreezePrice, Persist, Refuse, At
  <2> QED BY <1>1, <2>1 DEF TypeOK, RowsOK, Kept
<1>6. CASE Admit
  BY <1>1, <1>6 DEF Admit, Refuse
<1>7. CASE Follows
  BY <1>7, PlacingKeeps DEF Follows, Same, Kept
<1>8. ASSUME NEW o \in Orders, Paying(o) PROVE order'[k] = NoOrder \/ Kept(k)
  BY <1>8, PayingRows DEF Kept, TypeOK, RowsOK
<1> QED BY <1>2, <1>3, <1>4, <1>5, <1>6, <1>7, <1>8, StepKinds

\* What was recorded of an order stands, and a new one has what its request read.
LEMMA SoldAsRecorded ==
  ASSUME TypeOK, SoldHolds, OrdersDeliver, [Next]_vars
  PROVE  OrdersDeliver'
<1> SUFFICES ASSUME NEW k \in Orders, order'[k] # NoOrder
             PROVE  RecipeOk(order'[k].advertised, order'[k].recipe)
  BY DEF OrdersDeliver
<1>1. CASE Kept(k)
  BY <1>1 DEF Kept, OrdersDeliver
<1>2. ASSUME NEW c \in Callers, call[c].at = "persist", order'[k] = NewOrder(c)
      PROVE  RecipeOk(order'[k].advertised, order'[k].recipe)
  BY <1>2, NewOrderType DEF SoldHolds, Callers
<1> QED BY <1>1, <1>2, RowsStep

\* A recipe is checked against the very row it is recorded with.
LEMMA SoldStep ==
  ASSUME TypeOK, SoldHolds, [Next]_vars
  PROVE  SoldHolds'
<1> DEFINE Deep == { "counting", "pricing", "persist" }
<1>0. call \in [ Callers -> Calls ]
  BY DEF TypeOK, CallsOK
<1>1. CASE UNCHANGED call
  BY <1>1 DEF SoldHolds
<1>2. ASSUME NEW c \in Callers, \A d \in Callers : d # c => call'[d] = call[d],
             call'[c].at \in Deep => RecipeOk(call'[c].row.advertised, call'[c].recipe)
      PROVE  SoldHolds'
  BY <1>2 DEF SoldHolds
<1>3. ASSUME NEW c \in Callers, Refuse(c) PROVE SoldHolds'
  <2>1. call'[c].at \notin Deep
    BY <1>3, RefuseEnds DEF NoCall
  <2> QED BY <1>2, <1>3, <2>1, RefuseEnds
<1>4. ASSUME NEW c \in Callers, Working(c) PROVE SoldHolds'
  <2>0. call[c] \in Calls
    BY <1>0
  <2>1. CASE FindCombo(c)
    <3>1. CASE ~Refuse(c)
      <4>1. call' = [ call EXCEPT ![c] = [ @ EXCEPT !.at = "recipe", !.row = combo.draft,
                                                    !.live = Live ] ]
        BY <2>1, <3>1 DEF FindCombo
      <4>2. call'[c].at = "recipe" /\ \A d \in Callers : d # c => call'[d] = call[d]
        BY <1>0, <2>0, <4>1 DEF Calls
      <4> QED BY <1>2, <4>2
    <3> QED BY <1>3, <3>1
  <2>2. CASE FindRecipe(c)
    <3> DEFINE recipe == IF combo.there THEN combo.draft.recipe ELSE << >>
    <3>1. CASE ~Refuse(c)
      <4>1. /\ OrderErrors(c, call[c].live, call[c].row, recipe, products) = {}
            /\ call' = [ call EXCEPT ![c] = [ @ EXCEPT !.at = "counting", !.recipe = recipe ] ]
        BY <2>2, <3>1 DEF FindRecipe
      <4>2. RecipeOk(call[c].row.advertised, recipe)
        BY <4>1 DEF OrderErrors
      <4> HIDE DEF recipe
      <4>3. call'[c].row = call[c].row /\ call'[c].recipe = recipe
        BY <1>0, <2>0, <4>1 DEF Calls
      <4> QED BY <1>0, <1>2, <4>1, <4>2, <4>3
    <3> QED BY <1>3, <3>1
  <2>3. CASE CountOrders(c) \/ FreezePrice(c)
    <3>1. CASE ~Refuse(c)
      <4>1. /\ \A d \in Callers : d # c => call'[d] = call[d]
            /\ call[c].at \in Deep
            /\ call'[c].row = call[c].row /\ call'[c].recipe = call[c].recipe
        <5>1. call[c].at \in Deep
          BY <2>3 DEF CountOrders, FreezePrice, At
        <5>2. \E at, price : call' = [ call EXCEPT ![c] = [ @ EXCEPT !.at = at, !.price = price ] ]
          <6>1. CASE CountOrders(c)
            <7>1. call' = [ call EXCEPT ![c] = [ @ EXCEPT !.at = "pricing" ] ]
              BY <3>1, <6>1 DEF CountOrders, GoTo
            <7>2. [ call[c] EXCEPT !.at = "pricing" ]
                    = [ call[c] EXCEPT !.at = "pricing", !.price = call[c].price ]
              BY <2>0 DEF Calls
            <7> QED BY <7>1, <7>2
          <6>2. CASE FreezePrice(c)
            BY <3>1, <6>2 DEF FreezePrice
          <6> QED BY <2>3, <6>1, <6>2
        <5> QED BY <1>0, <2>0, <5>1, <5>2 DEF Calls
      <4> QED BY <1>2, <4>1 DEF SoldHolds
    <3> QED BY <1>3, <3>1
  <2>4. CASE Persist(c)
    <3>1. CASE ~Refuse(c)
      <4>1. /\ \A d \in Callers : d # c => call'[d] = call[d]
            /\ call[c].at \in Deep
            /\ call'[c].row = call[c].row /\ call'[c].recipe = call[c].recipe
        <5>1. call[c].at \in Deep
          BY <2>4 DEF Persist, At
        <5>2. \E at, o : call' = [ call EXCEPT ![c] = [ @ EXCEPT !.order = o, !.at = at ] ]
          BY <2>4, <3>1 DEF Persist
        <5> QED BY <1>0, <2>0, <5>1, <5>2 DEF Calls
      <4> QED BY <1>2, <4>1 DEF SoldHolds
    <3> QED BY <1>3, <3>1
  <2> QED BY <1>4, <2>1, <2>2, <2>3, <2>4 DEF Working
<1>5. CASE (\E view \in Options : Submit(view)) \/ \E paid \in BOOLEAN : EnterByHand(paid)
  <2>1. ASSUME NEW view \in Options, Submit(view) PROVE SoldHolds'
    BY <1>0, <1>2, <2>1 DEF Submit, NoCall, Callers
  <2>2. ASSUME NEW paid \in BOOLEAN, EnterByHand(paid) PROVE SoldHolds'
    BY <1>0, <1>2, <2>2 DEF EnterByHand, NoCall, Callers
  <2> QED BY <1>5, <2>1, <2>2
<1>6. CASE Admit
  <2>1. CASE ~Refuse("web")
    <3>0. call["web"] \in Calls /\ "web" \in Callers
      BY <1>0 DEF Callers
    <3> DEFINE f == [ call["web"] EXCEPT !.at = "combo", !.gateway = Automatic(call["web"].view),
                                         !.method = RecordedAs(call["web"].view) ]
    <3>1. call' = [ call EXCEPT !["web"] = f ] /\ f.at = "combo"
      BY <1>6, <2>1, <3>0 DEF Admit, Calls
    <3> HIDE DEF f
    <3> QED BY <1>0, <1>2, <3>1 DEF Callers
  <2> QED BY <1>3, <2>1 DEF Callers
<1>7. CASE Follows
  <2>1. PICK c \in Callers : /\ call'[c].at \notin Before
                             /\ \A d \in Callers : d # c => call'[d] = call[d]
    BY <1>7, PlacingKeeps DEF Follows
  <2> QED BY <1>2, <2>1 DEF Before
<1>8. ASSUME NEW o \in Orders, Paying(o) PROVE SoldHolds'
  BY <1>1, <1>8, PayingRows
<1>9. CASE Edits \/ UNCHANGED vars
  BY <1>1, <1>9, EditsAside DEF vars
<1> QED
  BY <1>3, <1>4, <1>5, <1>6, <1>7, <1>8, <1>9, StepKinds DEF Crash

\* Never two at once: the index is asked whenever an order takes its place.
LEMMA OneStep ==
  ASSUME TypeOK, OneHeld, [Next]_vars
  PROVE  OneHeld'
<1>0. order \in [ Orders -> Rows \cup { NoOrder } ]
  BY DEF TypeOK, RowsOK
<1>1. CASE Held' \subseteq Held
  BY <1>1 DEF OneHeld
<1>2. ASSUME NEW o, \A k \in Orders : k # o => order'[k] = order[k], ~IndexRefuses(o)
      PROVE  OneHeld'
  <2>1. Held' \subseteq Held \cup {o}
    BY <1>2 DEF Held, Holds
  <2> QED BY <1>2, <2>1 DEF OneHeld, IndexRefuses
<1>3. UNCHANGED order => OneHeld'
  BY <1>1 DEF Held, Holds
<1>4. ASSUME NEW c \in Callers, Working(c) \/ Crash(c) PROVE OneHeld'
  <2>1. \/ UNCHANGED order
        \/ /\ order' = [ order EXCEPT ![Min(Free)] = NewOrder(c) ] /\ ~IndexRefuses(Min(Free))
    BY <1>4 DEF Working, Crash, FindCombo, FindRecipe, CountOrders, FreezePrice, Persist, Refuse
  <2> QED BY <1>0, <1>2, <1>3, <2>1
<1>5. CASE Follows
  BY <1>1, <1>5, PlacingKeeps DEF Follows, Same, Held, Holds, NoOrder
<1>6. ASSUME NEW o \in Orders, Paying(o) PROVE OneHeld'
  <2>1. PICK r \in Rows : /\ order' = [ order EXCEPT ![o] = r ]
                          /\ Holds(o) \/ r.status \in Released \/ ~IndexRefuses(o)
    BY <1>6, PayingRows
  <2>2. CASE Holds(o) \/ r.status \in Released
    <3>1. Held' \subseteq Held
      BY <1>0, <2>1, <2>2 DEF Held, Holds
    <3> QED BY <1>1, <3>1
  <2>3. CASE ~IndexRefuses(o)
    BY <1>0, <1>2, <2>1, <2>3
  <2> QED BY <2>1, <2>2, <2>3
<1>7. CASE (\E view \in Options : Submit(view)) \/ (\E paid \in BOOLEAN : EnterByHand(paid)) \/ Admit
  BY <1>3, <1>7 DEF Submit, EnterByHand, Admit, Refuse
<1>8. CASE Edits \/ UNCHANGED vars
  BY <1>3, <1>8, EditsAside DEF vars
<1> QED BY <1>4, <1>5, <1>6, <1>7, <1>8, StepKinds

------------------------------------------------------------------------------
(* The theorems.                                                           *)

LEMMA ShopInvStep == ShopInv /\ [Next]_vars => ShopInv'
BY TypeStep, RoomStep, SoldStep, SoldAsRecorded, OneStep DEF ShopInv

LEMMA ShopInvHolds == Spec => []ShopInv
<1>1. ShopInv /\ [Next]_vars => ShopInv'
  BY ShopInvStep
<1> QED BY ShopInit, <1>1, PTL DEF Spec

\* Every request, page and order is what the code takes it for, with what it
\* never checks: an order is there for whoever goes on with it, a page waits
\* for its request, and no charge is linked that no gateway opened.
THEOREM StorefrontTypes == Spec => []TypeOK
<1>1. ShopInv => TypeOK
  BY DEF ShopInv
<1> QED BY ShopInvHolds, <1>1, PTL

\* Whatever the panel writes between the two reads of createOrder, no order is
\* recorded whose recipe falls short of the advertised diamonds recorded with it,
\* those of the row findComboForOrder read (ordering.ts, checkRecipe).  What the
\* customer's page showed is not compared, here or in the code.
THEOREM OrdersAreDelivered == Spec => []OrdersDeliver
<1>1. ShopInv => OrdersDeliver
  BY DEF ShopInv
<1> QED BY ShopInvHolds, <1>1, PTL

\* Where the index covers the combo, at most one order holds the player's
\* place, also when one that had lapsed is paid (one_mega_oferta_per_player).
THEOREM OnePlaceEach == Spec => []OneMegaEach
<1>1. ASSUME ShopInv PROVE OneMegaEach
  <2>1. CASE Held = {}
    BY <2>1, FS_EmptySet DEF OneMegaEach
  <2>2. ASSUME NEW a \in Held, Indexed PROVE Cardinality(Held) <= 1
    <3>1. Held = {a}
      BY <1>1, <2>2 DEF ShopInv, OneHeld
    <3> QED BY <3>1, FS_Singleton
  <2> QED BY <2>1, <2>2 DEF OneMegaEach
<1> QED BY ShopInvHolds, <1>1, PTL
===============================================================================
