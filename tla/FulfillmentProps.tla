-------------------------- MODULE FulfillmentProps --------------------------
(***************************************************************************)
(* What fulfilment has to guarantee, stated over Fulfillment's variables.  *)
(***************************************************************************)
EXTENDS Fulfillment

WorkerPcs == { "idle", "claimed", "holding", "preflight", "next", "locked",
               "calling", "answered", "finish", "finishing" }
SweepPcs == { "idle", "poll", "try_lock", "recover", "escalate", "refresh",
              "refreshing" }

Jobs == [ order : Orders \cup {0}, todo : SUBSET Items,
          inactive : SUBSET Items, item : Items \cup {0}, reading : Int,
          outcome : OutcomeKinds \cup {"none"}, halted : HaltReasons,
          seen : OrderStatuses \cup {"none"},
          final : OrderStatuses \cup {"none"} ]
Snapshots == [ item : Items, reading : Int, tries : Nat,
               age : { "young", "old" } ]
SweepJobs == [ order : Orders \cup {0}, back : { "none", "poll", "recover" },
               final : OrderStatuses \cup {"none"} ]
PlanKinds == { "none", "delivered", "requeue", "by_hand", "refund",
               "refund_done" }
Plans == [ kind : PlanKinds, order : Orders \cup {0},
           expected : OrderStatuses \cup {"none"},
           next : OrderStatuses \cup {"none"},
           was : UNION { [S -> ItemStatuses] : S \in SUBSET Items } ]

RowsOK == /\ orderStatus \in [Orders -> OrderStatuses]
          /\ status \in [Items -> ItemStatuses]
          /\ attempts \in [Items -> Nat] /\ before \in [Items -> Int]
          /\ aged \subseteq Items
FlagsOK == withdrawn \subseteq Items /\ emergency \in BOOLEAN
LockOK == lock \in { "free", "worker", "sweep" }
WorkerOK == /\ wpc \in WorkerPcs /\ job \in Jobs
            /\ wpc # "idle" => job.order \in Orders
            /\ wpc \in { "locked", "calling", "answered" } =>
                 job.item \in Items
SweepOK == /\ spc \in SweepPcs /\ batch \subseteq Snapshots
           /\ sjob \in SweepJobs
           /\ spc \in { "escalate", "refresh", "refreshing" } =>
                sjob.order \in Orders /\ sjob.back \in { "poll", "recover" }
           /\ spc = "refreshing" => sjob.final \in OrderStatuses
PlanOK == /\ plan \in Plans
          /\ plan # NoPlan =>
               plan.order \in Orders /\ plan.next \in OrderStatuses
ProviderOK == /\ wallet \in Int /\ charged \in [Items -> Nat]
              /\ late \subseteq Items
UsedOK == used \in [ crash : Nat, throw : Nat, topup : Nat, review : Nat,
                     toggle : Nat ]

\* Every variable has the shape the code's rows and locals have, and the order
\* in hand is an order wherever the code goes on to use it.
TypeOK == /\ RowsOK /\ FlagsOK /\ LockOK /\ WorkerOK /\ SweepOK /\ PlanOK
          /\ ProviderOK /\ byHand \subseteq Items /\ UsedOK

\* The customer gets no item twice, from the provider or by a hand that is on
\* record, whatever dies, throws, answers ambiguously or is re-sent in between.
DeliveredOnce ==
  \A i \in Items : charged[i] + (IF i \in byHand THEN 1 ELSE 0) <= 1

\* An item the books call delivered was delivered.
DeliveredIsReal ==
  \A i \in Items : status[i] = "succeeded" => charged[i] > 0 \/ i \in byHand

\* A completed order has every item delivered, whoever wrote the status and
\* however old what they had loaded was.
CompletedIsWhole ==
  \A o \in Orders : orderStatus[o] = "completed" =>
    \A i \in ItemsOf(o) : status[i] = "succeeded"

\* The automatic retries of an item never exceed its budget, although the
\* count is only checked when the order is loaded.
RetriesAreBounded == \A i \in Items : attempts[i] <= MaxAttempts

\* While the worker's call on an item is out, nobody but the worker settles
\* it: recovery never judges a live call by a wallet that call may yet move.
NoVerdictUnderLiveCall ==
  [][\A i \in Items :
       /\ wpc \in { "calling", "answered" } /\ job.item = i
       /\ status'[i] # status[i]
       => wpc = "answered" /\ wpc' \in { "next", "idle" }]_vars

Sent(i) == status[i] # "sending" /\ status'[i] = "sending"

\* What fulfillment.ts:363-364 promises of a halt: nothing more is sent for an
\* order whose refund was decided, nor while one of its items is unresolved.  It
\* does not hold: the unknown item and its parked order are two writes, and the
\* worker does not look at the order again between two items.
StoppedOrdersAreNotSent ==
  [][\A i \in Items : Sent(i) =>
       /\ orderStatus[OrderOf[i]] \notin { "refund_required", "cancelled" }
       /\ \A j \in ItemsOf(OrderOf[i]) : status[j] # "unknown"]_vars

\* What fulfillment.ts:403 promises of a halt: once an order is parked for a
\* human, only a human starts it again, or the resolution of its last open item
\* completes it.  It does not hold: the sweep's refresh, and the worker's finish,
\* write what they derived from an earlier load.
OnlyHumansUnpark ==
  [][\A o \in Orders : orderStatus[o] = "needs_review" /\ plan' = plan =>
       orderStatus'[o] \in { "needs_review", "completed" }]_vars

\* A paid order does not stay with the machinery: it completes, or a human
\* is asked to look at it.
PaidOrdersRest ==
  \A o \in Orders :
    orderStatus[o] \in { "payment_confirmed", "processing",
                         "partially_delivered" }
    ~> orderStatus[o] \in { "completed", "needs_review", "refund_required",
                            "cancelled" }

\* Fulfilment implements the ledger: charged and by-hand deliveries are what
\* the customer got, 'succeeded' is the booking.
Given  == [ i \in Items |-> charged[i] + (IF i \in byHand THEN 1 ELSE 0) ]
Booked == { i \in Items : status[i] = "succeeded" }

ItemLedger == INSTANCE Ledger WITH given <- Given, booked <- Booked

ImplementsLedger == ItemLedger!Spec

\* With crashes and exceptions it implements the ledger that may lose a call:
\* an item left 'sending' without the worker at its call is lost, and only
\* the recovery of such an item may book what the customer never got.
Lost == { i \in Items : /\ status[i] = "sending"
                        /\ ~(wpc \in { "calling", "answered" } /\ job.item = i) }

CrashLedger == INSTANCE LossyLedger
                 WITH given <- Given, booked <- Booked, lost <- Lost

ImplementsLossyLedger == CrashLedger!Spec

\* With the worker and the sweep at work between a review's load and its
\* commit, the panel's six actions are those of Review, taken at once on the
\* rows as they are then; and the two loops keep to what Review leaves them.
ReviewDesk == INSTANCE Review WITH given <- Given

ImplementsReview == ReviewDesk!Spec
=============================================================================
