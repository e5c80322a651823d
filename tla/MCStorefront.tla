----------------------------- MODULE MCStorefront -----------------------------
(***************************************************************************)
(* The storefront on one combo, which the panel may replace by a smaller   *)
(* one at a lower price.                                                   *)
(***************************************************************************)
EXTENDS StorefrontProps

MCDenominations == { 310 }
Draft(price, advertised, recipe) ==
  [ price |-> price, advertised |-> advertised, recipe |-> recipe ]
MCOnSale == Draft(50, 682, <<310, 310>>)
MCDrafts == { Draft(30, 341, <<310>>), MCOnSale }
MCOfferPrices == { 7, 40 }
MCPayTo == [ account |-> TRUE, spin |-> FALSE, card |-> TRUE, transfer |-> TRUE, oxxo |-> FALSE ]
MCStripe == { "card" }
MCMp == { "oxxo" }

\* A payment's new deadline, a day past the grace, is never before the last day
\* of a voucher the same configuration issues.
ASSUME GraceCoversVouchers ==
  \A oxxo, spei \in -1..9 :
    /\ PendingGraceDays(oxxo, spei) \in 1..7
    /\ "oxxo" \in StripeMethods => PendingGraceDays(oxxo, spei) >= Days(oxxo)
    /\ "spei" \in StripeMethods => PendingGraceDays(oxxo, spei) >= Days(spei)
=============================================================================
