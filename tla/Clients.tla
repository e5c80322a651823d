------------------------------- MODULE Clients -------------------------------
(***************************************************************************)
(* The provider clients: what an HTTP answer means for a purchase, a poll  *)
(* or a balance (provider/src/recargasamerica.ts, central-one.ts), and     *)
(* which product of a catalog answer sells a denomination (catalog.ts).    *)
(*                                                                         *)
(* An answer is a record: via is "transport" when there was none, or the   *)
(* class of the HTTP status; code is the provider's own code; body is what *)
(* a 200 carried; notice says its message speaks of maintenance.           *)
(***************************************************************************)
EXTENDS Integers, Sequences, SequencesExt

Http(via, code, body, notice) ==
  [ via |-> via, code |-> code, body |-> body, notice |-> notice ]
\* One answer of every class either client tells apart.
HttpAnswers ==
  { Http("transport", "", "", FALSE), Http("5xx", "", "", FALSE), Http("5xx", "", "", TRUE),
    Http("5xx", "maintenance_mode", "", TRUE), Http("409", "idempotency_key_reused", "", FALSE),
    Http("422", "INVALID_PRODUCT_TYPE", "", FALSE), Http("422", "insufficient_balance", "", FALSE),
    Http("4xx", "", "", FALSE),
    Http("200", "", "completed", FALSE), Http("200", "", "pending", FALSE),
    Http("200", "", "pending_unnamed", FALSE), Http("200", "", "pins", FALSE),
    Http("200", "", "unreadable", FALSE) }

Kinds == { "pins_recharge", "games", "pins_code" }

Ambiguous(reason)  == [ kind |-> "ambiguous", reason |-> reason ]
Failed(retryable)  == [ kind |-> "failed", retryable |-> retryable ]
Succeeded          == [ kind |-> "succeeded" ]
Pending            == [ kind |-> "pending" ]
AsCode             == [ kind |-> "delivered_as_code" ]
Thrown             == [ kind |-> "thrown" ]

------------------------------------------------------------------------------

\* mapPurchaseFailure of RecargasAmerica.
RaFailure(answer) ==
  CASE answer.via = "transport" -> Ambiguous("network")
    [] answer.via = "422" -> Failed(answer.code # "INVALID_PRODUCT_TYPE")
    [] answer.via = "5xx" -> Ambiguous("provider_error")
    [] answer.via = "409" -> Ambiguous("duplicate")
    [] OTHER -> Failed(FALSE)

\* purchase: codes instead of a top-up, then PENDING, which needs a reference.
\* A 200 that is not the documented envelope counts as a refusal.
RaPurchase(answer) ==
  IF answer.via # "200" \/ answer.body = "unreadable" THEN RaFailure(answer)
  ELSE CASE answer.body = "pins" -> AsCode
         [] answer.body = "pending" -> Pending
         [] answer.body = "pending_unnamed" -> Ambiguous("provider_error")
         [] OTHER -> Succeeded

\* mapPurchaseFailure of Central One: a maintenance code is a promise that
\* nothing started, whatever the status.
CoFailure(answer) ==
  CASE answer.via = "transport" -> Ambiguous("network")
    [] answer.code = "maintenance_mode" -> Failed(TRUE)
    [] answer.via = "5xx" -> Ambiguous("provider_error")
    [] answer.code = "idempotency_key_reused" -> Ambiguous("duplicate")
    [] OTHER -> Failed(answer.code \in {"insufficient_balance", "insufficient_stock",
                                        "rate_limited"})

\* purchase: whatever is not completed yet is pending, refused orders included.
CoPurchase(answer) ==
  IF answer.via # "200" THEN CoFailure(answer)
  ELSE CASE answer.body = "completed" -> Succeeded
         [] answer.body = "unreadable" -> Thrown
         [] OTHER -> Pending

\* buildPurchaseBody throws for a product that delivers codes.
Buyable(kind) == kind # "pins_code"

------------------------------------------------------------------------------

(* A raw catalog row names numbers: near is the one next to a diamond      *)
(* word, 0 without one, numbers the others in order.                       *)
NoPrice == -1
Unread  == 0

Base == {100, 310, 520, 1060, 2180, 5600}

\* resolveDenomination: a base count, or what a base count delivers with the
\* bonus of a tenth, rounded half up.
Resolve(n) ==
  IF n \in Base THEN n
  ELSE IF \E b \in Base : n = (11 * b + 5) \div 10
       THEN CHOOSE b \in Base : n = (11 * b + 5) \div 10 ELSE Unread

\* A number next to a diamond word stands even when it is no denomination.
ExtractDiamonds(name) ==
  IF name.near # 0 THEN IF Resolve(name.near) = Unread THEN name.near ELSE Resolve(name.near)
  ELSE LET known == SelectSeq(name.numbers, LAMBDA n : Resolve(n) # Unread)
       IN IF known = <<>> THEN Unread ELSE Resolve(Head(known))

Row(raw, kind) == [ id |-> raw.id, diamonds |-> ExtractDiamonds(raw.name), cost |-> raw.price,
                    kind |-> kind ]

\* normaliseCatalogProduct: the fields say where a recharge goes.
RaRow(raw) ==
  Row(raw, CASE ~raw.recharge -> "pins_code"
             [] "manual_id" \in raw.fields -> "pins_recharge"
             [] "player_id" \in raw.fields -> "games"
             [] OTHER -> "pins_code")
RaCatalog(raws) == [ n \in DOMAIN raws |-> RaRow(raws[n]) ]

\* Only rows that take the player's id and nothing else are asked for.
CoCatalog(raws) ==
  LET direct == SelectSeq(raws, LAMBDA raw : raw.fields = {"player_id"})
  IN [ n \in DOMAIN direct |-> Row(direct[n], "games") ]

Rank(kind) == CASE kind = "pins_recharge" -> 0 [] kind = "games" -> 1 [] OTHER -> 2

\* mapDenominations: the places in an answer of the rows of a denomination.
Candidates(catalog, denomination) ==
  { n \in DOMAIN catalog : catalog[n].diamonds = denomination }

\* pickProduct: among those ranked like the best, the one already sold, and
\* among equals the provider's first.
Pick(catalog, places, activeIds) ==
  LET best == { n \in places : \A k \in places : Rank(catalog[n].kind) <= Rank(catalog[k].kind) }
      kept == { n \in best : catalog[n].id \in activeIds /\ catalog[n].cost # NoPrice }
  IN catalog[Min(IF kept = {} THEN best ELSE kept)]

=============================================================================
