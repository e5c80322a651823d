----------------------------- MODULE SupplyProps -----------------------------
(* What Supply is checked for.                                             *)
EXTENDS Supply

Line == [ diamonds : DenominationSet, product : Products, cost : Nat, status : ItemStatuses ]

TypeOK ==
  /\ rows \in [ Products -> [ diamonds : DenominationSet \cup {0}, kind : Kinds \cup {"none"},
                              cost : Nat \cup {NoPrice}, active : BOOLEAN ] ]
  /\ recipe \in [ DOMAIN FirstRecipe -> Products ]
  /\ active \in Providers /\ emergency \in BOOLEAN
  /\ \A o \in Orders : items[o] = <<>> \/ items[o] \in [ DOMAIN FirstRecipe -> Line ]
  /\ orderStatus \in [ Orders -> OrderStatuses ]
  /\ job.order \in Orders \cup {None}
  /\ errors \in [ Providers -> 0 .. ErrorThreshold - 1 ]
  /\ boundary \in Actors \cup {None} /\ lock \in [ Providers -> Actors \cup {None} ]

(* An item that may have reached the provider, and any item of a closed    *)
(* order, is evidence: neither a sync nor a failover rewrites the product  *)
(* and the cost it was sent or kept with (catalog-sync-store.ts).          *)
EvidenceStays ==
  [][\A o \in Orders : \A n \in DOMAIN items[o] :
       items[o][n].status \notin {"queued", "failed"} \/ orderStatus[o] \in ClosedOrder =>
         items'[o][n].product = items[o][n].product /\ items'[o][n].cost = items[o][n].cost]_vars

(* Whatever the provider renames, replaces or reassigns, and whichever     *)
(* provider serves it, a recipe line and an item deliver the denomination  *)
(* that was sold: the row they point at is stored as nothing else.         *)
DiamondsStay ==
  /\ \A n \in DOMAIN recipe : rows[recipe[n]].diamonds = FirstRows[FirstRecipe[n]].diamonds
  /\ \A o \in Orders : \A n \in DOMAIN items[o] :
       rows[items[o][n].product].diamonds = items[o][n].diamonds

(* The worker's own sync waits for the order in hand (ORDER_BOUNDARY_KEY): *)
(* it never re-points what the worker has loaded and still has to send.    *)
SyncWaitsForOrders ==
  [][task["sweep"].at = "repoint" /\ task'["sweep"].at = "retire" =>
       \A n \in DOMAIN job.held : items'[job.order][n] = items[job.order][n]]_vars

(* The row of an item that was sent names the product that was bought, so  *)
(* that recovery and the poller ask the right provider and compare the     *)
(* right wallet.                                                           *)
RowNamesItsCall ==
  \A o \in Orders : \A n \in DOMAIN items[o] :
    items[o][n].status \in {"sending", "unknown", "provider_pending", "succeeded"} =>
      items[o][n].product = Last(calls[o][n])

=============================================================================
