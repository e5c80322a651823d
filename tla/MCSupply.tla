------------------------------ MODULE MCSupply ------------------------------
(* One combo of 100 + 310 diamonds over a provider whose catalog moves and *)
(* a backup that has only one of the two ready.                            *)
EXTENDS SupplyProps

CONSTANTS ra1, ra2, ra3, co1, o1

RA == "recargas_america"
CO == "central_one"
Four == {ra1, ra2, ra3, co1}
Owner == [ id \in Four |-> IF id = co1 THEN CO ELSE RA ]
Two == <<100, 310>>

Raw(id, near, numbers, recharge, fields, price) ==
  [ id |-> id, name |-> [ near |-> near, numbers |-> numbers ], recharge |-> recharge,
    fields |-> fields, price |-> price ]
Player == {"player_id"}
As(d, cost) == [ diamonds |-> d, kind |-> "games", cost |-> cost, active |-> TRUE ]

\* The catalog as stored; ra1 replaced by ra3, which its delivered count names;
\* ra2's id now sells 100; nothing usable.
Same     == << Raw(ra1, 100, <<>>, TRUE, Player, 7), Raw(ra2, 310, <<>>, TRUE, Player, 21) >>
Replaced == << Raw(ra3, 0, <<2026, 110>>, TRUE, Player, 8), Raw(ra2, 341, <<>>, TRUE, Player, 21) >>
Reused   == << Raw(ra2, 100, <<>>, TRUE, {"manual_id"}, 7), Raw(ra1, 110, <<>>, TRUE, Player, 7) >>
Unusable == << Raw(ra1, 100, <<>>, FALSE, {}, 7), Raw(ra2, 310, <<>>, TRUE, Player, NoPrice) >>
Backup   == << Raw(co1, 100, <<>>, TRUE, Player, 9),
               Raw(ra3, 310, <<>>, TRUE, {"player_id", "server_id"}, 9) >>
Catalogs == [ p \in Providers |-> IF p = RA THEN {Same, Replaced, Reused, Unusable}
                                  ELSE { Backup, <<>> } ]

Stocked == [ id \in Four |-> CASE id = ra1 -> As(100, 7) [] id = ra2 -> As(310, 21)
                               [] id = co1 -> As(100, 9) [] OTHER -> NoRow ]
Combo == <<ra1, ra2>>
Paid == {o1}
Nobody == {}
=============================================================================
