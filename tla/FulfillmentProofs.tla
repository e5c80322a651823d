-------------------------- MODULE FulfillmentProofs --------------------------
(***************************************************************************)
(* Proofs, for every number of orders and items, every price table and     *)
(* every bound on the environment.  The lock, the guards in the store and  *)
(* the compare-and-sets of a review keep everybody else away from a live   *)
(* call's item; nothing is delivered twice, 'completed' is never written   *)
(* over an order that is not whole, nothing is sent more often than its    *)
(* budget allows; the books are the ledger's, less what a crash loses; and *)
(* what was parked or stopped is left to a human as long as the sweep      *)
(* settles nothing.  The inductive invariants are FulfillmentInv's.        *)
(***************************************************************************)
EXTENDS FulfillmentInv, TLAPS

------------------------------------------------------------------------------
(* Types.                                                                  *)

\* An idle worker holds a well-formed empty job.
LEMMA NoJobType == NoJob \in Jobs
BY DEF NoJob, Jobs, HaltReasons

\* An idle sweep holds a well-formed empty job.
LEMMA NoSweepType == NoSweep \in SweepJobs
BY DEF NoSweep, SweepJobs

\* So does a reviewer with no request in flight.
LEMMA NoPlanType == NoPlan \in Plans
<1>1. <<>> \in UNION { [S -> ItemStatuses] : S \in SUBSET Items }
  <2>1. <<>> \in [{} -> ItemStatuses]
    OBVIOUS
  <2> QED BY <2>1
<1> QED BY <1>1 DEF NoPlan, Plans, PlanKinds

\* What an item is settled to is an item status, whatever the answer was.
LEMMA OutcomeType == \A i : /\ OutcomeStatus(i) \in ItemStatuses
                            /\ HaltReason(i) \in HaltReasons
BY DEF OutcomeStatus, HaltReason, HaltReasons, ItemStatuses

\* deriveOrderStatus only ever derives a declared status.
LEMMA DerivedType == \A o : Derived(o) \in OrderStatuses
BY DEF Derived, DeriveOrderStatus, OrderStatuses

\* The initial rows and memories are well typed.
LEMMA TypeInit == Init => TypeOK
<1> SUFFICES ASSUME Init PROVE TypeOK
  OBVIOUS
<1>1. RowsOK
  BY DEF Init, RowsOK, OrderStatuses, ItemStatuses
<1>2. FlagsOK
  BY Zenon DEF Init, FlagsOK
<1>3. LockOK /\ PlanOK
  BY NoPlanType DEF Init, LockOK, PlanOK
<1>4. WorkerOK /\ SweepOK
  BY NoJobType, NoSweepType DEF Init, WorkerOK, SweepOK, WorkerPcs, SweepPcs
<1>5. ProviderOK /\ byHand \subseteq Items
  BY BoundAssumption DEF Init, ProviderOK
<1>6. UsedOK
  BY DEF Init, UsedOK
<1> QED
  BY <1>1, <1>2, <1>3, <1>4, <1>5, <1>6 DEF TypeOK

\* What an action leaves alone keeps its type.
LEMMA TypeFrame ==
  ASSUME TypeOK
  PROVE  /\ UNCHANGED rows => RowsOK'
         /\ UNCHANGED flags => FlagsOK'
         /\ UNCHANGED lock => LockOK'
         /\ UNCHANGED worker => WorkerOK'
         /\ UNCHANGED sweeper => SweepOK'
         /\ UNCHANGED plan => PlanOK'
         /\ UNCHANGED provider => ProviderOK'
         /\ UNCHANGED byHand => (byHand \subseteq Items)'
         /\ UNCHANGED used => UsedOK'
<1> USE DEF TypeOK
<1>1. UNCHANGED rows => RowsOK'
  BY DEF rows, RowsOK
<1>2. UNCHANGED flags => FlagsOK'
  BY Zenon DEF flags, FlagsOK
<1>3. UNCHANGED lock => LockOK'
  BY DEF LockOK
<1>4. UNCHANGED worker => WorkerOK'
  BY DEF worker, WorkerOK
<1>5. UNCHANGED sweeper => SweepOK'
  BY DEF sweeper, SweepOK
<1>6. UNCHANGED plan => PlanOK'
  BY DEF PlanOK
<1>7. UNCHANGED provider => ProviderOK'
  BY DEF provider, ProviderOK
<1>8. UNCHANGED byHand => (byHand \subseteq Items)'
  OBVIOUS
<1>9. UNCHANGED used => UsedOK'
  BY DEF UsedOK
<1> QED
  BY <1>1, <1>2, <1>3, <1>4, <1>5, <1>6, <1>7, <1>8, <1>9

\* Leaving an order, and writing one status, are well typed.
LEMMA IdleType ==
  ASSUME TypeOK, WorkerIdle
  PROVE  WorkerOK' /\ LockOK'
BY NoJobType DEF TypeOK, WorkerOK, LockOK, WorkerIdle, WorkerPcs

\* Writing one declared status leaves the rows well typed.
LEMMA OrderStatusType ==
  ASSUME TypeOK, NEW o \in Orders, NEW st \in OrderStatuses,
         \/ orderStatus' = [ orderStatus EXCEPT ![o] = st ]
         \/ orderStatus' = orderStatus,
         UNCHANGED <<status, attempts, before, aged>>
  PROVE  RowsOK'
BY DEF TypeOK, RowsOK

\* Every step of fulfillOrder keeps rows, lock and locals well typed.
LEMMA WorkerTypeStep == TypeOK /\ WorkerStep => TypeOK'
<1> SUFFICES ASSUME TypeOK, WorkerStep PROVE TypeOK'
  OBVIOUS
<1> USE TypeFrame
<1>0. /\ job \in Jobs /\ (wpc # "idle" => job.order \in Orders)
      /\ wpc \in { "locked", "calling", "answered" } => job.item \in Items
      /\ "needs_review" \in OrderStatuses /\ "processing" \in OrderStatuses
  BY DEF TypeOK, WorkerOK, OrderStatuses
<1>1. ASSUME NEW o \in Orders, Claim(o) PROVE TypeOK'
  <2>1. RowsOK'
    BY <1>0, <1>1, OrderStatusType DEF Claim
  <2>2. WorkerOK'
    BY <1>1, NoJobType DEF WorkerOK, Claim, WorkerPcs, Jobs
  <2> QED
    BY <1>1, <2>1, <2>2 DEF TypeOK, Claim
<1>2. CASE HoldLoad
  <2>1. job' = [ job EXCEPT !.seen = orderStatus[job.order] ] /\ wpc' = "holding"
    BY <1>2 DEF HoldLoad
  <2>2. orderStatus[job.order] \in OrderStatuses /\ job.order \in Orders
    BY <1>0, <1>2 DEF HoldLoad, TypeOK, RowsOK
  <2>3. WorkerOK'
    BY <1>0, <2>1, <2>2 DEF WorkerOK, WorkerPcs, Jobs
  <2> QED
    BY <1>2, <2>3 DEF TypeOK, HoldLoad
<1>3. CASE HoldWrite
  <2>1. RowsOK'
    BY <1>0, <1>3, OrderStatusType DEF HoldWrite
  <2> QED
    BY <1>3, <2>1, IdleType DEF TypeOK, HoldWrite
<1>4. CASE LoadOrder
  <2>1. PendingItems(job.order) \subseteq Items
    BY DEF PendingItems, ItemsOf
  <2>2. CASE orderStatus[job.order] \in NotFulfillable
    BY <1>4, <2>2, NoJobType DEF TypeOK, WorkerOK, LoadOrder, WorkerPcs
  <2>3. CASE orderStatus[job.order] \notin NotFulfillable
    <3>1. /\ job' = [ job EXCEPT !.todo = PendingItems(job.order),
                       !.inactive = PendingItems(job.order) \cap withdrawn,
                       !.seen = orderStatus[job.order] ]
          /\ wpc' \in { "finish", "preflight" }
      BY <1>4, <2>3 DEF LoadOrder
    <3>2. orderStatus[job.order] \in OrderStatuses /\ job.order \in Orders
      BY <1>0, <1>4 DEF LoadOrder, TypeOK, RowsOK
    <3>3. job' \in Jobs /\ job'.order = job.order
      BY <1>0, <2>1, <3>1, <3>2 DEF Jobs
    <3> QED
      BY <1>4, <3>1, <3>2, <3>3 DEF TypeOK, LoadOrder, WorkerOK, WorkerPcs
  <2> QED
    BY <2>2, <2>3
<1>5. CASE PreflightShort
  <2>1. RowsOK'
    BY <1>0, <1>5, OrderStatusType DEF PreflightShort
  <2> QED
    BY <1>5, <2>1, IdleType DEF TypeOK, PreflightShort
<1>6. CASE PreflightPasses
  <2>1. RowsOK'
    BY <1>0, <1>6, OrderStatusType DEF PreflightPasses
  <2>2. WorkerOK' /\ LockOK'
    <3>1. CASE WorkerIdle
      BY <3>1, IdleType
    <3>2. CASE wpc' = "next" /\ UNCHANGED <<job, lock>>
      BY <1>0, <1>6, <3>2 DEF WorkerOK, WorkerPcs, PreflightPasses
    <3> QED
      BY <1>6, <3>1, <3>2 DEF PreflightPasses
  <2> QED
    BY <1>6, <2>1, <2>2 DEF TypeOK, PreflightPasses
<1>7. ASSUME NEW i \in job.todo, RefuseInactive(i) PROVE TypeOK'
  <2>1. RowsOK'
    BY <1>7 DEF TypeOK, RowsOK, RefuseInactive, ItemStatuses
  <2>2. WorkerOK' /\ LockOK'
    <3>1. CASE WorkerIdle
      BY <3>1, IdleType
    <3>2. CASE /\ wpc' = "next" /\ UNCHANGED lock
               /\ job' = [ job EXCEPT !.halted = "product_unavailable" ]
      <4>1. job' \in Jobs /\ job'.order = job.order
        BY <1>0, <3>2 DEF Jobs, HaltReasons
      <4> QED
        BY <1>0, <1>7, <3>2, <4>1 DEF WorkerOK, WorkerPcs, RefuseInactive, IsNext
    <3> QED
      BY <1>7, <3>1, <3>2 DEF RefuseInactive
  <2> QED
    BY <1>7, <2>1, <2>2 DEF TypeOK, RefuseInactive
<1>8. ASSUME NEW i \in job.todo, TakeLock(i) PROVE TypeOK'
  <2>1. job' = [ job EXCEPT !.item = i, !.reading = wallet ] /\ wpc' = "locked"
    BY <1>8 DEF TakeLock
  <2>2. i \in Items /\ wallet \in Int
    BY <1>0 DEF Jobs, TypeOK, ProviderOK
  <2>3. job' \in Jobs /\ job'.order = job.order
    BY <1>0, <2>1, <2>2 DEF Jobs
  <2>4. job'.item = i /\ job.order \in Orders
    BY <1>0, <1>8, <2>1 DEF Jobs, TakeLock, IsNext
  <2>5. WorkerOK' /\ LockOK'
    BY <1>8, <2>1, <2>2, <2>3, <2>4 DEF WorkerOK, WorkerPcs, LockOK, TakeLock
  <2> QED
    BY <1>8, <2>5 DEF TypeOK, TakeLock
<1>9. CASE MarkSending
  <2>1. CASE status[job.item] \in Dispatchable
    <3>1. RowsOK'
      BY <1>0, <1>9, <2>1 DEF TypeOK, RowsOK, MarkSending, ItemStatuses, Jobs
    <3>2. WorkerOK'
      BY <1>0, <1>9, <2>1 DEF WorkerOK, WorkerPcs, MarkSending
    <3> QED
      BY <1>9, <2>1, <3>1, <3>2 DEF TypeOK, MarkSending
  <2>2. CASE status[job.item] \notin Dispatchable
    BY <1>9, <2>2, IdleType DEF TypeOK, MarkSending, rows
  <2> QED
    BY <2>1, <2>2
<1>10. ASSUME NEW kind \in OutcomeKinds, Purchase(kind) PROVE TypeOK'
  <2>1. job' = [ job EXCEPT !.outcome = kind ] /\ wpc' = "answered"
    BY <1>10 DEF Purchase
  <2>2. WorkerOK'
    BY <1>0, <1>10, <2>1 DEF WorkerOK, WorkerPcs, Jobs, Purchase
  <2>3. job.item \in Items /\ Debit[job.item] \in Nat
    BY <1>0, <1>10, PriceAssumption DEF Purchase
  <2>4. ProviderOK'
    BY <1>10, <2>3 DEF TypeOK, ProviderOK, Purchase
  <2> QED
    BY <1>10, <2>2, <2>4 DEF TypeOK, Purchase
<1>11. CASE Settle
  <2>1. RowsOK'
    BY <1>11, OutcomeType DEF TypeOK, RowsOK, Settle
  <2>2. CASE status[job.item] \in Settleable
    <3>1. /\ job' = [ NoJob EXCEPT !.order = job.order,
                        !.todo = job.todo \ {job.item},
                        !.inactive = job.inactive,
                        !.halted = HaltReason(job.item) ]
          /\ wpc' = "next" /\ lock' = "free"
      BY <1>11, <2>2 DEF Settle
    <3>2. job' \in Jobs
      BY <1>0, <1>11, <3>1, NoJobType, OutcomeType DEF Jobs, Settle
    <3>3. job'.order \in Orders
      BY <1>0, <1>11, <3>1, NoJobType DEF Jobs, Settle
    <3>4. WorkerOK' /\ LockOK'
      BY <3>1, <3>2, <3>3 DEF WorkerOK, WorkerPcs, LockOK
    <3> QED
      BY <1>11, <2>1, <3>4 DEF TypeOK, Settle
  <2>3. CASE status[job.item] \notin Settleable
    BY <1>11, <2>1, <2>3, IdleType DEF TypeOK, Settle
  <2> QED
    BY <2>2, <2>3
<1>12. CASE RunOver
  BY <1>0, <1>12 DEF TypeOK, RunOver, WorkerOK, WorkerPcs
<1>13. CASE FinishLoad
  <2>1. /\ job' = [ NoJob EXCEPT !.order = job.order,
                      !.seen = orderStatus[job.order],
                      !.final = IF job.halted # "no" THEN "needs_review"
                                ELSE Derived(job.order) ]
        /\ wpc' = "finishing"
    BY <1>13 DEF FinishLoad
  <2>2. /\ job.order \in Orders /\ orderStatus[job.order] \in OrderStatuses
        /\ (IF job.halted # "no" THEN "needs_review" ELSE Derived(job.order))
             \in OrderStatuses
    BY <1>0, <1>13, DerivedType DEF FinishLoad, TypeOK, RowsOK
  <2>3. job' \in Jobs /\ job'.order = job.order
    BY <2>1, <2>2, NoJobType DEF Jobs
  <2>4. WorkerOK'
    BY <2>1, <2>2, <2>3 DEF WorkerOK, WorkerPcs
  <2> QED
    BY <1>13, <2>4 DEF TypeOK, FinishLoad
<1>14. CASE FinishWrite
  <2>1. RowsOK'
    <3>1. CASE UNCHANGED orderStatus
      BY <1>14, <3>1 DEF TypeOK, RowsOK, FinishWrite
    <3>2. CASE ~UNCHANGED orderStatus
      BY <1>0, <1>14, <3>2, OrderStatusType DEF FinishWrite, CanTransition, Transitions, OrderStatuses, Jobs
    <3> QED
      BY <3>1, <3>2
  <2> QED
    BY <1>14, <2>1, IdleType DEF TypeOK, FinishWrite
<1> QED
  BY <1>1, <1>2, <1>3, <1>4, <1>5, <1>6, <1>7, <1>8, <1>9, <1>10, <1>11,
     <1>12, <1>13, <1>14 DEF WorkerStep

\* SettleRow, in the two phases that use it.
LEMMA SettleRowType ==
  ASSUME TypeOK, NEW r \in batch, NEW to \in ItemStatuses,
         NEW then \in { "escalate", "refresh" }, spc \in { "poll", "recover" },
         SettleRow(r, to, then)
  PROVE  /\ status' \in [Items -> ItemStatuses] /\ SweepOK'
<1>1. r \in Snapshots /\ batch \subseteq Snapshots /\ r.item \in Items
  BY DEF TypeOK, SweepOK, Snapshots
<1>2. status' \in [Items -> ItemStatuses] /\ batch' \subseteq Snapshots
  BY <1>1 DEF TypeOK, RowsOK, SettleRow
<1>3. CASE status[r.item] \in Settleable
  <2>1. sjob' = [ NoSweep EXCEPT !.order = OrderOf[r.item], !.back = spc ]
        /\ spc' = then
    BY <1>3 DEF SettleRow
  <2>2. OrderOf[r.item] \in Orders
    BY <1>1, SetAssumption
  <2>3. sjob' \in SweepJobs /\ sjob'.order \in Orders /\ sjob'.back = spc
    BY <2>1, <2>2, NoSweepType DEF SweepJobs
  <2> QED
    BY <1>2, <2>1, <2>3 DEF SweepOK, SweepPcs
<1>4. CASE status[r.item] \notin Settleable
  BY <1>2, <1>4 DEF SettleRow, TypeOK, SweepOK
<1> QED
  BY <1>3, <1>4

\* A row the sweep loads is a well-formed snapshot.
LEMMA SnapshotType == TypeOK => \A i \in Items : Snapshot(i) \in Snapshots
BY DEF Snapshot, Snapshots, TypeOK, RowsOK

\* Every step of the poller and of recovery keeps types.
LEMMA SweepTypeStep == TypeOK /\ SweepStep => TypeOK'
<1> SUFFICES ASSUME TypeOK, SweepStep PROVE TypeOK'
  OBVIOUS
<1> USE TypeFrame
<1>0. /\ sjob \in SweepJobs /\ batch \subseteq Snapshots /\ spc \in SweepPcs
      /\ spc \in { "escalate", "refresh", "refreshing" } =>
           sjob.order \in Orders /\ sjob.back \in { "poll", "recover" }
      /\ spc = "refreshing" => sjob.final \in OrderStatuses
  BY DEF TypeOK, SweepOK
<1>1. CASE PollQuery
  <2>1. SweepOK'
    BY <1>0, <1>1, SnapshotType DEF PollQuery, SweepOK, SweepPcs
  <2> QED
    BY <1>1, <2>1 DEF TypeOK, PollQuery
<1>2. CASE RecoverQuery
  <2>1. SweepOK'
    BY <1>0, <1>2, SnapshotType DEF RecoverQuery, SweepOK, SweepPcs
  <2> QED
    BY <1>2, <2>1 DEF TypeOK, RecoverQuery
<1>3. CASE TryLock
  <2>1. SweepOK' /\ LockOK'
    BY <1>0, <1>3 DEF TryLock, SweepOK, SweepPcs, TypeOK, LockOK
  <2> QED
    BY <1>3, <2>1 DEF TypeOK, TryLock
<1>4. CASE RecoverDone
  <2>1. SweepOK' /\ LockOK'
    BY <1>0, <1>4 DEF RecoverDone, SweepOK, SweepPcs, LockOK
  <2> QED
    BY <1>4, <2>1 DEF TypeOK, RecoverDone
<1>5. ASSUME NEW r \in batch, PollCompleted(r) PROVE TypeOK'
  <2>1. status' \in [Items -> ItemStatuses] /\ SweepOK'
    BY <1>5, SettleRowType DEF PollCompleted, ItemStatuses
  <2>2. RowsOK'
    BY <1>5, <2>1 DEF PollCompleted, TypeOK, RowsOK
  <2> QED
    BY <1>5, <2>1, <2>2 DEF TypeOK, PollCompleted
<1>6. ASSUME NEW r \in batch, PollEscalates(r) PROVE TypeOK'
  <2>1. status' \in [Items -> ItemStatuses] /\ SweepOK'
    BY <1>6, SettleRowType DEF PollEscalates, ItemStatuses
  <2>2. RowsOK'
    BY <1>6, <2>1 DEF PollEscalates, TypeOK, RowsOK
  <2> QED
    BY <1>6, <2>1, <2>2 DEF TypeOK, PollEscalates
<1>7. ASSUME NEW r \in batch, SkipRow(r) PROVE TypeOK'
  <2>1. SweepOK'
    BY <1>0, <1>7 DEF SkipRow, SweepOK
  <2> QED
    BY <1>7, <2>1 DEF TypeOK, SkipRow
<1>8. ASSUME NEW r \in batch, RecoverItem(r) PROVE TypeOK'
  <2>1. PICK to \in ItemStatuses, then \in { "escalate", "refresh" } :
          SettleRow(r, to, then)
    BY <1>8 DEF RecoverItem, ItemStatuses
  <2>2. status' \in [Items -> ItemStatuses] /\ SweepOK'
    BY <1>8, <2>1, SettleRowType DEF RecoverItem
  <2>3. RowsOK'
    BY <1>8, <2>2 DEF RecoverItem, TypeOK, RowsOK
  <2> QED
    BY <1>8, <2>2, <2>3 DEF TypeOK, RecoverItem
<1>9. CASE Escalate
  <2>1. RowsOK'
    BY <1>0, <1>9, OrderStatusType DEF Escalate, OrderStatuses
  <2>2. SweepOK'
    BY <1>0, <1>9, NoSweepType DEF Escalate, SweepOK, SweepPcs
  <2> QED
    BY <1>9, <2>1, <2>2 DEF TypeOK, Escalate
<1>10. CASE RefreshLoad
  <2>1. Refreshed(sjob.order) \in OrderStatuses
    BY DerivedType DEF Refreshed, OrderStatuses
  <2>2. SweepOK'
    <3>1. CASE Refreshed(sjob.order) = orderStatus[sjob.order]
      BY <1>0, <1>10, <3>1, NoSweepType DEF RefreshLoad, SweepOK, SweepPcs
    <3>2. CASE Refreshed(sjob.order) # orderStatus[sjob.order]
      <4>1. /\ spc' = "refreshing" /\ batch' = batch
            /\ sjob' = [ sjob EXCEPT !.final = Refreshed(sjob.order) ]
        BY <1>10, <3>2 DEF RefreshLoad
      <4> QED
        BY <1>0, <1>10, <2>1, <4>1 DEF SweepOK, SweepPcs, SweepJobs, RefreshLoad
    <3> QED
      BY <3>1, <3>2
  <2> QED
    BY <1>10, <2>2 DEF TypeOK, RefreshLoad
<1>11. CASE RefreshWrite
  <2>1. SweepOK'
    BY <1>0, <1>11, NoSweepType DEF RefreshWrite, SweepOK, SweepPcs
  <2>2. RowsOK'
    BY <1>0, <1>11, OrderStatusType DEF RefreshWrite
  <2> QED
    BY <1>11, <2>1, <2>2 DEF TypeOK, RefreshWrite
<1> QED
  BY <1>1, <1>2, <1>3, <1>4, <1>5, <1>6, <1>7, <1>8, <1>9, <1>10, <1>11
  DEF SweepStep

\* A review's order and items are ones the request found.
LEMMA ProposeType ==
  ASSUME TypeOK, NEW kind \in PlanKinds, NEW o \in Orders,
         NEW next \in OrderStatuses, NEW S \in SUBSET Items,
         Propose(kind, o, next, S)
  PROVE  TypeOK'
<1>1. [ i \in S |-> status[i] ] \in UNION { [T -> ItemStatuses] : T \in SUBSET Items }
  <2>1. [ i \in S |-> status[i] ] \in [S -> ItemStatuses]
    BY DEF TypeOK, RowsOK
  <2> QED
    BY <2>1
<1>2. plan' = [ kind |-> kind, order |-> o, expected |-> orderStatus[o],
                next |-> next, was |-> [ i \in S |-> status[i] ] ]
  BY DEF Propose
<1>3. orderStatus[o] \in OrderStatuses
  BY DEF TypeOK, RowsOK
<1>4. PlanOK'
  BY <1>1, <1>2, <1>3 DEF PlanOK, Plans
<1>5. UsedOK'
  BY DEF TypeOK, UsedOK, Propose
<1> QED
  BY <1>4, <1>5, TypeFrame DEF TypeOK, Propose

\* Every review request, and its commit, keeps types.
LEMMA ReviewTypeStep == TypeOK /\ ReviewStep => TypeOK'
<1> SUFFICES ASSUME TypeOK, ReviewStep PROVE TypeOK'
  OBVIOUS
<1>0. /\ \A i \in Items : OrderOf[i] \in Orders
      /\ { "completed", "needs_review", "partially_delivered",
           "payment_confirmed", "refund_required", "cancelled" }
           \subseteq OrderStatuses
      /\ { "delivered", "requeue", "by_hand", "refund", "refund_done" }
           \subseteq PlanKinds
  BY SetAssumption DEF OrderStatuses, PlanKinds
<1>1. ASSUME NEW i \in Items,
             PlanDelivered(i) \/ PlanNotDelivered(i) \/ PlanDeliveredManually(i)
      PROVE  TypeOK'
  <2>1. PICK kind \in PlanKinds, next \in OrderStatuses :
          Propose(kind, OrderOf[i], next, {i})
    BY <1>0, <1>1 DEF PlanDelivered, PlanNotDelivered, PlanDeliveredManually
  <2> QED
    BY <1>0, <2>1, ProposeType
<1>2. ASSUME NEW o \in Orders,
             PlanResume(o) \/ PlanRefund(o) \/ PlanRefundDone(o)
      PROVE  TypeOK'
  <2>1. PICK kind \in PlanKinds, next \in OrderStatuses, S \in SUBSET Items :
          Propose(kind, o, next, S)
    <3>1. CASE PlanResume(o)
      <4>1. { i \in ItemsOf(o) : status[i] \in Dispatchable } \subseteq Items
        BY DEF ItemsOf
      <4> QED
        BY <1>0, <3>1, <4>1 DEF PlanResume
    <3>2. CASE PlanRefund(o) \/ PlanRefundDone(o)
      BY <1>0, <3>2 DEF PlanRefund, PlanRefundDone
    <3> QED
      BY <1>2, <3>1, <3>2
  <2> QED
    BY <2>1, ProposeType
<1>3. CASE ApplyReview
  <2>1. plan.order \in Orders /\ plan.next \in OrderStatuses
    BY <1>3 DEF TypeOK, PlanOK, ApplyReview
  <2>2. orderStatus' \in [Orders -> OrderStatuses]
    BY <1>3, <2>1 DEF TypeOK, RowsOK, ApplyReview
  <2>3. status' \in [Items -> ItemStatuses]
    BY <1>3 DEF TypeOK, RowsOK, ApplyReview, ItemStatuses
  <2>4. attempts' \in [Items -> Nat]
    BY <1>3 DEF TypeOK, RowsOK, ApplyReview
  <2>5. RowsOK'
    BY <1>3, <2>2, <2>3, <2>4 DEF TypeOK, RowsOK, ApplyReview
  <2>6. PlanOK' 
    BY <1>3, NoPlanType DEF PlanOK, ApplyReview
  <2>7. (byHand \subseteq Items)'
    <3>1. DOMAIN plan.was \subseteq Items
      BY DEF TypeOK, PlanOK, Plans
    <3> QED
      BY <1>3, <3>1 DEF TypeOK, ApplyReview
  <2> QED
    BY <1>3, <2>5, <2>6, <2>7, TypeFrame DEF TypeOK, ApplyReview
<1> QED
  BY <1>1, <1>2, <1>3 DEF ReviewStep

\* So do payments, the clock, the provider, the owner, throws and crashes.
LEMMA EnvironmentTypeStep == TypeOK /\ Environment => TypeOK'
<1> SUFFICES ASSUME TypeOK, Environment PROVE TypeOK'
  OBVIOUS
<1> USE TypeFrame
<1>1. ASSUME NEW o \in Orders, ConfirmPayment(o) PROVE TypeOK'
  <2>1. RowsOK'
    BY <1>1, OrderStatusType DEF ConfirmPayment, OrderStatuses
  <2> QED
    BY <1>1, <2>1 DEF TypeOK, ConfirmPayment
<1>2. ASSUME NEW i \in Items, GrowOld(i) PROVE TypeOK'
  <2>1. RowsOK'
    BY <1>2 DEF GrowOld, TypeOK, RowsOK
  <2> QED
    BY <1>2, <2>1 DEF TypeOK, GrowOld
<1>3. ASSUME NEW i \in Items, LandLate(i) PROVE TypeOK'
  <2>1. Debit[i] \in Nat
    BY <1>3, PriceAssumption
  <2>2. ProviderOK'
    BY <1>3, <2>1 DEF LandLate, TypeOK, ProviderOK
  <2> QED
    BY <1>3, <2>2 DEF TypeOK, LandLate
<1>4. ASSUME NEW i \in Items, Withdraw(i) PROVE TypeOK'
  <2>1. (withdrawn \subseteq Items)' /\ emergency' = emergency
    BY <1>4 DEF Withdraw, TypeOK, FlagsOK
  <2>2. FlagsOK'
    BY <2>1, Zenon DEF TypeOK, FlagsOK
  <2> QED
    BY <1>4, <2>2 DEF TypeOK, Withdraw
<1>5. CASE ToggleEmergency
  <2>1. FlagsOK'
    BY <1>5, Zenon DEF ToggleEmergency, TypeOK, FlagsOK
  <2>2. UsedOK'
    BY <1>5 DEF ToggleEmergency, TypeOK, UsedOK
  <2> QED
    BY <1>5, <2>1, <2>2 DEF TypeOK, ToggleEmergency
<1>6. ASSUME NEW amount \in TopUps, TopUp(amount) PROVE TypeOK'
  <2>1. ProviderOK'
    BY <1>6, BoundAssumption DEF TopUp, TypeOK, ProviderOK
  <2>2. UsedOK'
    BY <1>6 DEF TopUp, TypeOK, UsedOK
  <2> QED
    BY <1>6, <2>1, <2>2 DEF TypeOK, TopUp
<1>7. CASE WorkerThrows
  <2>1. UsedOK'
    BY <1>7 DEF WorkerThrows, TypeOK, UsedOK
  <2> QED
    BY <1>7, <2>1, IdleType DEF TypeOK, WorkerThrows
<1>8. CASE SweepThrows
  <2>1. UsedOK'
    BY <1>8 DEF SweepThrows, TypeOK, UsedOK
  <2>2. SweepOK'
    BY <1>8, NoSweepType DEF SweepThrows, TypeOK, SweepOK, SweepPcs
  <2> QED
    BY <1>8, <2>1, <2>2 DEF TypeOK, SweepThrows
<1>9. CASE Crash
  <2>1. UsedOK'
    BY <1>9 DEF Crash, TypeOK, UsedOK
  <2>2. SweepOK' /\ LockOK'
    BY <1>9, NoSweepType DEF Crash, SweepOK, SweepPcs, LockOK
  <2>3. WorkerOK'
    BY <1>9, NoJobType DEF Crash, WorkerOK, WorkerPcs
  <2> QED
    BY <1>9, <2>1, <2>2, <2>3 DEF TypeOK, Crash
<1> QED
  BY <1>1, <1>2, <1>3, <1>4, <1>5, <1>6, <1>7, <1>8, <1>9 DEF Environment

\* So does every step.
LEMMA TypeStep == TypeOK /\ [Next]_vars => TypeOK'
<1>1. TypeOK /\ UNCHANGED vars => TypeOK'
  BY TypeFrame DEF TypeOK, vars
<1> QED
  BY <1>1, WorkerTypeStep, SweepTypeStep, ReviewTypeStep, EnvironmentTypeStep
  DEF Next

\* Type correctness, for every instance.
THEOREM TypeCorrect == Spec => []TypeOK
BY TypeInit, TypeStep, PTL DEF Spec

------------------------------------------------------------------------------
(* Live calls.                                                             *)

\* Nobody holds the lock, and nothing is in hand, at the start.
LEMMA GuardInit == Init => LiveCallsAreGuarded
BY DEF Init, LiveCallsAreGuarded, LockInv, CallInv, TodoInv, BatchInv, PlanInv,
       InCall, Recovering, Polling, NoPlan, NoSweep

\* What an action leaves alone stays guarded.
LEMMA GuardFrame ==
  ASSUME LiveCallsAreGuarded
  PROVE  /\ UNCHANGED <<lock, wpc, spc, sjob>> => LockInv'
         /\ UNCHANGED <<status, before, wpc, job>> => CallInv' /\ TodoInv'
         /\ UNCHANGED <<status, spc, batch, sjob>> => BatchInv'
         /\ UNCHANGED <<status, plan>> => PlanInv'
<1> USE DEF LiveCallsAreGuarded
<1>1. UNCHANGED <<lock, wpc, spc, sjob>> => LockInv'
  BY DEF LockInv, Recovering
<1>2. UNCHANGED <<status, before, wpc, job>> => CallInv' /\ TodoInv'
  BY DEF CallInv, TodoInv, InCall
<1>3. UNCHANGED <<status, spc, batch, sjob>> => BatchInv'
  BY DEF BatchInv, Polling
<1>4. UNCHANGED <<status, plan>> => PlanInv'
  BY DEF PlanInv
<1> QED
  BY <1>1, <1>2, <1>3, <1>4

\* Off the lock, the worker guards nothing and disturbs nothing.
LEMMA GuardIdle ==
  ASSUME LiveCallsAreGuarded, wpc' \in { "idle", "claimed", "holding",
           "finish", "finishing" },
         \/ lock = "worker" /\ lock' = "free"
         \/ lock # "worker" /\ lock' = lock,
         UNCHANGED <<spc, sjob>>
  PROVE  LockInv' /\ CallInv' /\ TodoInv'
BY DEF LiveCallsAreGuarded, LockInv, CallInv, TodoInv, InCall, Recovering

\* The worker takes the lock before a call and gives it up after settling.
LEMMA GuardWorker ==
  TypeOK /\ LiveCallsAreGuarded /\ WorkerStep => LiveCallsAreGuarded'
<1> SUFFICES ASSUME TypeOK, LiveCallsAreGuarded, WorkerStep
             PROVE  LiveCallsAreGuarded'
  OBVIOUS
<1> USE GuardFrame
<1>0. /\ LockInv /\ CallInv /\ TodoInv /\ BatchInv /\ PlanInv
      /\ status \in [Items -> ItemStatuses] /\ batch \subseteq Snapshots
      /\ before \in [Items -> Int]
      /\ job \in Jobs /\ job.todo \subseteq Items
      /\ wpc \in { "locked", "calling", "answered" } => job.item \in Items
  BY DEF LiveCallsAreGuarded, TypeOK, RowsOK, SweepOK, WorkerOK, Jobs
<1>1. ASSUME NEW o \in Orders, Claim(o) PROVE LiveCallsAreGuarded'
  BY <1>0, <1>1, GuardIdle DEF Claim, LiveCallsAreGuarded, LockInv, sweeper
<1>2. CASE HoldLoad
  BY <1>0, <1>2, GuardIdle DEF HoldLoad, LiveCallsAreGuarded, LockInv, sweeper, rows
<1>3. CASE HoldWrite
  BY <1>0, <1>3, GuardIdle DEF HoldWrite, WorkerIdle, LiveCallsAreGuarded, sweeper
<1>4. CASE LoadOrder
  <2>1. UNCHANGED <<status, before, spc, batch, sjob, plan, lock>>
    BY <1>4 DEF LoadOrder, rows, sweeper
  <2>2. CASE orderStatus[job.order] \in NotFulfillable \/ PendingItems(job.order) = {}
    <3>1. wpc' \in { "idle", "finish" } /\ wpc = "claimed"
      BY <1>4, <2>2 DEF LoadOrder
    <3> QED
      BY <1>0, <2>1, <3>1, GuardIdle DEF LiveCallsAreGuarded, LockInv
  <2>3. CASE orderStatus[job.order] \notin NotFulfillable /\ PendingItems(job.order) # {}
    <3>1. /\ job' = [ job EXCEPT !.todo = PendingItems(job.order),
                       !.inactive = PendingItems(job.order) \cap withdrawn,
                       !.seen = orderStatus[job.order] ]
          /\ wpc = "claimed" /\ wpc' = "preflight"
      BY <1>4, <2>3 DEF LoadOrder
    <3>2. job'.todo = PendingItems(job.order)
      BY <1>0, <3>1 DEF Jobs
    <3>3. LockInv' /\ CallInv' /\ TodoInv'
      BY <1>0, <2>1, <3>1, <3>2 DEF LockInv, CallInv, TodoInv, InCall, Recovering,
         PendingItems, Dispatchable, Settleable
    <3> QED
      BY <2>1, <3>3 DEF LiveCallsAreGuarded
  <2> QED
    BY <2>2, <2>3
<1>5. CASE PreflightShort
  BY <1>0, <1>5, GuardIdle DEF PreflightShort, WorkerIdle, LiveCallsAreGuarded, sweeper
<1>6. CASE PreflightPasses
  <2>1. UNCHANGED <<status, before, spc, batch, sjob, plan>>
    BY <1>6 DEF PreflightPasses, sweeper
  <2>2. CASE WorkerIdle
    BY <2>1, <2>2, GuardIdle DEF WorkerIdle, LiveCallsAreGuarded
  <2>3. CASE wpc' = "next" /\ UNCHANGED <<job, lock>>
    <3>1. LockInv' /\ CallInv' /\ TodoInv'
      BY <1>0, <1>6, <2>1, <2>3 DEF PreflightPasses, LockInv, CallInv, TodoInv, InCall, Recovering
    <3> QED
      BY <2>1, <3>1 DEF LiveCallsAreGuarded
  <2> QED
    BY <1>6, <2>2, <2>3 DEF PreflightPasses
<1>7. ASSUME NEW i \in job.todo, RefuseInactive(i) PROVE LiveCallsAreGuarded'
  <2>1. status[i] \notin Settleable
    BY <1>0, <1>7 DEF RefuseInactive, IsNext, TodoInv
  <2>2. WorkerIdle /\ UNCHANGED <<status, before, spc, batch, sjob, plan>>
    BY <1>7, <2>1 DEF RefuseInactive, sweeper
  <2> QED
    BY <2>2, GuardIdle DEF WorkerIdle, LiveCallsAreGuarded
<1>8. ASSUME NEW i \in job.todo, TakeLock(i) PROVE LiveCallsAreGuarded'
  <2>1. /\ job' = [ job EXCEPT !.item = i, !.reading = wallet ]
        /\ wpc = "next" /\ wpc' = "locked" /\ lock = "free" /\ lock' = "worker"
        /\ UNCHANGED <<status, before, spc, batch, sjob, plan>>
    BY <1>8 DEF TakeLock, IsNext, rows, sweeper
  <2>2. job'.todo = job.todo
    BY <1>0, <2>1 DEF Jobs
  <2>3. LockInv' /\ CallInv' /\ TodoInv'
    BY <1>0, <2>1, <2>2 DEF LockInv, CallInv, TodoInv, InCall, Recovering
  <2> QED
    BY <2>1, <2>3 DEF LiveCallsAreGuarded
<1>9. CASE MarkSending
  <2>1. CASE status[job.item] \in Dispatchable
    <3>1. /\ status' = [ status EXCEPT ![job.item] = "sending" ]
          /\ before' = [ before EXCEPT ![job.item] = job.reading ]
          /\ wpc = "locked" /\ wpc' = "calling" /\ job.item \in Items
          /\ UNCHANGED <<job, lock, spc, batch, sjob, plan>>
      BY <1>0, <1>9, <2>1 DEF MarkSending, sweeper
    <3>2. LockInv' /\ CallInv' /\ TodoInv'
      BY <1>0, <3>1 DEF LockInv, CallInv, TodoInv, InCall, Recovering
    <3>3. BatchInv'
      BY <1>0, <2>1, <3>1 DEF BatchInv, Polling, Dispatchable, Snapshots
    <3>4. PlanInv'
      BY <1>0, <2>1, <3>1 DEF PlanInv, Dispatchable
    <3> QED
      BY <3>2, <3>3, <3>4 DEF LiveCallsAreGuarded
  <2>2. CASE status[job.item] \notin Dispatchable
    BY <1>9, <2>2, GuardIdle DEF MarkSending, WorkerIdle, LiveCallsAreGuarded, sweeper
  <2> QED
    BY <2>1, <2>2
<1>10. ASSUME NEW kind \in OutcomeKinds, Purchase(kind) PROVE LiveCallsAreGuarded'
  <2>1. /\ job' = [ job EXCEPT !.outcome = kind ]
        /\ wpc = "calling" /\ wpc' = "answered"
        /\ UNCHANGED <<status, before, lock, spc, batch, sjob, plan>>
    BY <1>10 DEF Purchase, rows, sweeper
  <2>2. job'.todo = job.todo /\ job'.item = job.item /\ job'.reading = job.reading
    BY <1>0, <2>1 DEF Jobs
  <2>3. LockInv' /\ CallInv' /\ TodoInv'
    BY <1>0, <2>1, <2>2 DEF LockInv, CallInv, TodoInv, InCall, Recovering
  <2> QED
    BY <2>1, <2>3 DEF LiveCallsAreGuarded
<1>11. CASE Settle
  <2>0. status[job.item] = "sending" /\ job.item \in Items
    BY <1>0, <1>11 DEF Settle, CallInv, InCall
  <2>1. /\ status' = [ status EXCEPT ![job.item] = OutcomeStatus(job.item) ]
        /\ job' = [ NoJob EXCEPT !.order = job.order,
                        !.todo = job.todo \ {job.item},
                        !.inactive = job.inactive,
                        !.halted = HaltReason(job.item) ]
        /\ wpc = "answered" /\ wpc' = "next" /\ lock' = "free"
        /\ UNCHANGED <<before, spc, batch, sjob, plan>>
    BY <1>11, <2>0 DEF Settle, sweeper, Settleable
  <2>2. job'.todo = job.todo \ {job.item}
    BY <1>0, <2>1, NoJobType DEF Jobs
  <2>3. LockInv' /\ CallInv' /\ TodoInv'
    BY <1>0, <2>0, <2>1, <2>2 DEF LockInv, CallInv, TodoInv, InCall, Recovering
  <2>4. BatchInv'
    BY <1>0, <2>0, <2>1 DEF BatchInv, Polling, Snapshots
  <2>5. PlanInv'
    BY <1>0, <2>0, <2>1 DEF PlanInv
  <2> QED
    BY <2>3, <2>4, <2>5 DEF LiveCallsAreGuarded
<1>12. CASE RunOver
  BY <1>0, <1>12, GuardIdle DEF RunOver, LiveCallsAreGuarded, LockInv, rows, sweeper
<1>13. CASE FinishLoad
  BY <1>0, <1>13, GuardIdle DEF FinishLoad, LiveCallsAreGuarded, LockInv, rows, sweeper
<1>14. CASE FinishWrite
  BY <1>0, <1>14, GuardIdle DEF FinishWrite, WorkerIdle, LiveCallsAreGuarded, sweeper
<1> QED
  BY <1>1, <1>2, <1>3, <1>4, <1>5, <1>6, <1>7, <1>8, <1>9, <1>10, <1>11,
     <1>12, <1>13, <1>14 DEF WorkerStep

\* Settling a row of the snapshot: while it polls, the row's item is pending;
\* while it judges stalled items, the sweep holds the lock.  Either way the
\* item is none the worker is calling about.
LEMMA GuardRow ==
  ASSUME TypeOK, LiveCallsAreGuarded, NEW r \in batch,
         NEW to \in { "succeeded", "failed", "unknown" },
         NEW then \in { "escalate", "refresh" }, spc \in { "poll", "recover" },
         SettleRow(r, to, then), UNCHANGED <<before, lock, wpc, job, plan>>
  PROVE  LiveCallsAreGuarded'
<1>0. /\ LockInv /\ CallInv /\ TodoInv /\ BatchInv /\ PlanInv
      /\ status \in [Items -> ItemStatuses] /\ batch \subseteq Snapshots
      /\ r.item \in Items /\ batch' = batch \ {r} /\ sjob \in SweepJobs
  BY DEF LiveCallsAreGuarded, TypeOK, RowsOK, SweepOK, Snapshots, SettleRow
<1>1. CASE status[r.item] \in Settleable
  <2>1. /\ status' = [ status EXCEPT ![r.item] = to ]
        /\ spc' = then
        /\ sjob' = [ NoSweep EXCEPT !.order = OrderOf[r.item], !.back = spc ]
    BY <1>1 DEF SettleRow
  <2>2. sjob'.back = spc
    BY <2>1, NoSweepType DEF SweepJobs
  <2>3. LockInv'
    BY <1>0, <2>1, <2>2 DEF LockInv, Recovering
  <2>4. InCall => r.item # job.item
    BY <1>0 DEF CallInv, InCall, LockInv, Recovering, BatchInv, Polling
  <2>5. CallInv' /\ TodoInv'
    BY <1>0, <2>1, <2>4 DEF CallInv, TodoInv, InCall, Settleable
  <2>6. BatchInv'
    BY <1>0, <2>1, <2>2 DEF BatchInv, Polling
  <2>7. PlanInv'
    BY <1>0, <1>1, <2>1 DEF PlanInv, Settleable
  <2> QED
    BY <2>3, <2>5, <2>6, <2>7 DEF LiveCallsAreGuarded
<1>2. CASE status[r.item] \notin Settleable
  <2>1. UNCHANGED <<status, sjob, spc>>
    BY <1>2 DEF SettleRow
  <2>2. BatchInv'
    BY <1>0, <2>1 DEF BatchInv, Polling
  <2> QED
    BY <1>0, <2>1, <2>2, GuardFrame DEF LiveCallsAreGuarded
<1> QED
  BY <1>1, <1>2

\* The sweep judges stalled items under the lock and polls pending ones only.
LEMMA GuardSweep ==
  TypeOK /\ LiveCallsAreGuarded /\ SweepStep => LiveCallsAreGuarded'
<1> SUFFICES ASSUME TypeOK, LiveCallsAreGuarded, SweepStep
             PROVE  LiveCallsAreGuarded'
  OBVIOUS
<1> USE GuardFrame
<1>0. /\ LockInv /\ CallInv /\ TodoInv /\ BatchInv /\ PlanInv
      /\ status \in [Items -> ItemStatuses] /\ sjob \in SweepJobs
      /\ spc \in { "escalate", "refresh", "refreshing" } =>
           sjob.back \in { "poll", "recover" }
  BY DEF LiveCallsAreGuarded, TypeOK, RowsOK, SweepOK
<1>1. CASE PollQuery
  <2>1. UNCHANGED <<status, before, lock, wpc, job, plan>>
    BY <1>1 DEF PollQuery, rows, worker
  <2>2. BatchInv'
    BY <1>1, <2>1 DEF PollQuery, BatchInv, Snapshot
  <2>3. LockInv'
    BY <1>0, <1>1, <2>1 DEF PollQuery, LockInv, Recovering
  <2> QED
    BY <2>1, <2>2, <2>3 DEF LiveCallsAreGuarded
<1>2. CASE RecoverQuery
  <2>1. UNCHANGED <<status, before, lock, wpc, job, plan>>
    BY <1>2 DEF RecoverQuery, rows, worker
  <2>2. BatchInv'
    BY <1>2, <2>1 DEF RecoverQuery, BatchInv, Snapshot, Polling
  <2>3. LockInv'
    BY <1>0, <1>2, <2>1 DEF RecoverQuery, LockInv, Recovering
  <2> QED
    BY <2>1, <2>2, <2>3 DEF LiveCallsAreGuarded
<1>3. CASE TryLock
  <2>1. UNCHANGED <<status, before, wpc, job, plan, sjob>>
    BY <1>3 DEF TryLock, rows, worker
  <2>2. BatchInv' /\ LockInv'
    BY <1>0, <1>3, <2>1 DEF TryLock, BatchInv, Polling, LockInv, Recovering
  <2> QED
    BY <2>1, <2>2 DEF LiveCallsAreGuarded
<1>4. CASE RecoverDone
  <2>1. UNCHANGED <<status, before, wpc, job, plan, sjob, batch>>
    BY <1>4 DEF RecoverDone, rows, worker
  <2>2. BatchInv' /\ LockInv'
    BY <1>0, <1>4, <2>1 DEF RecoverDone, BatchInv, Polling, LockInv, Recovering
  <2> QED
    BY <2>1, <2>2 DEF LiveCallsAreGuarded
<1>5. ASSUME NEW r \in batch,
             PollCompleted(r) \/ PollEscalates(r) \/ RecoverItem(r)
      PROVE  LiveCallsAreGuarded'
  <2>1. /\ spc \in { "poll", "recover" }
        /\ UNCHANGED <<before, lock, wpc, job, plan>>
    BY <1>5 DEF PollCompleted, PollEscalates, RecoverItem, worker
  <2>2. PICK to \in { "succeeded", "failed", "unknown" },
             then \in { "escalate", "refresh" } : SettleRow(r, to, then)
    BY <1>5 DEF PollCompleted, PollEscalates, RecoverItem
  <2> QED
    BY <2>1, <2>2, GuardRow
<1>6. ASSUME NEW r \in batch, SkipRow(r) PROVE LiveCallsAreGuarded'
  <2>1. UNCHANGED <<status, before, lock, wpc, job, plan, spc, sjob>>
    BY <1>6 DEF SkipRow, rows, worker
  <2>2. BatchInv'
    BY <1>0, <1>6, <2>1 DEF SkipRow, BatchInv, Polling
  <2> QED
    BY <2>1, <2>2 DEF LiveCallsAreGuarded
<1>7. CASE Escalate \/ RefreshLoad \/ RefreshWrite
  <2>1. UNCHANGED <<status, before, lock, wpc, job, plan, batch>>
    BY <1>7 DEF Escalate, RefreshLoad, RefreshWrite, rows, worker
  <2>2. /\ spc \in { "escalate", "refresh", "refreshing" }
        /\ \/ spc' \in { "refresh", "refreshing" } /\ sjob'.back = sjob.back
           \/ spc' = sjob.back
    BY <1>0, <1>7 DEF Escalate, RefreshLoad, RefreshWrite, SweepJobs
  <2>3. (Recovering' <=> Recovering) /\ (Polling' <=> Polling)
    BY <1>0, <2>2 DEF Recovering, Polling
  <2>4. BatchInv' /\ LockInv'
    BY <1>0, <2>1, <2>3 DEF BatchInv, LockInv
  <2> QED
    BY <2>1, <2>4 DEF LiveCallsAreGuarded
<1> QED
  BY <1>1, <1>2, <1>3, <1>4, <1>5, <1>6, <1>7 DEF SweepStep

\* Reviewers only ever touch items that are neither out nor pending.
LEMMA GuardReview ==
  TypeOK /\ LiveCallsAreGuarded /\ ReviewStep => LiveCallsAreGuarded'
<1> SUFFICES ASSUME TypeOK, LiveCallsAreGuarded, ReviewStep
             PROVE  LiveCallsAreGuarded'
  OBVIOUS
<1> USE GuardFrame
<1>0. /\ LockInv /\ CallInv /\ TodoInv /\ BatchInv /\ PlanInv
      /\ status \in [Items -> ItemStatuses] /\ batch \subseteq Snapshots
      /\ DOMAIN plan.was \subseteq Items /\ job \in Jobs
      /\ wpc \in { "locked", "calling", "answered" } => job.item \in Items
  BY DEF LiveCallsAreGuarded, TypeOK, RowsOK, SweepOK, PlanOK, Plans, WorkerOK
<1>1. ASSUME NEW kind, NEW o, NEW next, NEW S \in SUBSET Items,
             Propose(kind, o, next, S),
             \A i \in S : /\ status[i] \in { "queued", "failed", "unknown" }
                          /\ kind = "by_hand" => status[i] \in Dispatchable
      PROVE  LiveCallsAreGuarded'
  <2>1. UNCHANGED <<status, before, lock, wpc, job, spc, batch, sjob>>
    BY <1>1 DEF Propose, rows, worker, sweeper
  <2>2. plan'.was = [ i \in S |-> status[i] ] /\ plan'.kind = kind
    BY <1>1 DEF Propose
  <2>3. PlanInv'
    BY <1>1, <2>1, <2>2 DEF PlanInv
  <2> QED
    BY <2>1, <2>3 DEF LiveCallsAreGuarded
<1>2. ASSUME NEW i \in Items,
             PlanDelivered(i) \/ PlanNotDelivered(i) \/ PlanDeliveredManually(i)
      PROVE  LiveCallsAreGuarded'
  BY <1>1, <1>2 DEF PlanDelivered, PlanNotDelivered, PlanDeliveredManually, Dispatchable
<1>3. ASSUME NEW o \in Orders,
             PlanResume(o) \/ PlanRefund(o) \/ PlanRefundDone(o)
      PROVE  LiveCallsAreGuarded'
  <2>1. CASE PlanResume(o)
    <3>1. { i \in ItemsOf(o) : status[i] \in Dispatchable } \subseteq Items
      BY DEF ItemsOf
    <3> QED
      BY <1>1, <2>1, <3>1 DEF PlanResume, Dispatchable
  <2>2. CASE PlanRefund(o) \/ PlanRefundDone(o)
    BY <1>1, <2>2 DEF PlanRefund, PlanRefundDone
  <2> QED
    BY <1>3, <2>1, <2>2
<1>4. CASE ApplyReview
  <2>1. UNCHANGED <<before, lock, wpc, job, spc, batch, sjob>>
    BY <1>4 DEF ApplyReview, worker, sweeper
  <2>2. PlanInv'
    BY <1>4 DEF ApplyReview, PlanInv, NoPlan
  <2>3. \A i \in Items : \/ status'[i] = status[i]
                         \/ /\ status[i] \notin Settleable
                            /\ status'[i] \in { "queued", "succeeded" }
    BY <1>0, <1>4 DEF ApplyReview, Unmoved, PlanInv, Settleable
  <2>4. CallInv' /\ TodoInv'
    BY <1>0, <2>1, <2>3 DEF CallInv, TodoInv, InCall, Settleable, Jobs
  <2>5. BatchInv'
    BY <1>0, <2>1, <2>3 DEF BatchInv, Polling, Settleable, Snapshots
  <2> QED
    BY <2>1, <2>2, <2>4, <2>5 DEF LiveCallsAreGuarded
<1> QED
  BY <1>2, <1>3, <1>4 DEF ReviewStep

\* A throw or a crash drops the lock together with the call it protected.
LEMMA GuardEnvironment ==
  TypeOK /\ LiveCallsAreGuarded /\ Environment => LiveCallsAreGuarded'
<1> SUFFICES ASSUME TypeOK, LiveCallsAreGuarded, Environment
             PROVE  LiveCallsAreGuarded'
  OBVIOUS
<1> USE GuardFrame
<1>0. /\ LockInv /\ CallInv /\ TodoInv /\ BatchInv /\ PlanInv
      /\ spc \in { "escalate", "refresh", "refreshing" } =>
           sjob.back \in { "poll", "recover" }
  BY DEF LiveCallsAreGuarded, TypeOK, SweepOK
<1>1. CASE \/ \E o \in Orders : ConfirmPayment(o)
           \/ \E i \in Items : GrowOld(i) \/ LandLate(i) \/ Withdraw(i)
           \/ ToggleEmergency
           \/ \E amount \in TopUps : TopUp(amount)
  <2>1. UNCHANGED <<status, before, lock, wpc, job, spc, batch, sjob, plan>>
    BY <1>1 DEF ConfirmPayment, GrowOld, LandLate, Withdraw, ToggleEmergency,
                TopUp, rows, worker, sweeper
  <2> QED
    BY <2>1 DEF LiveCallsAreGuarded
<1>2. CASE WorkerThrows
  BY <1>0, <1>2, GuardIdle DEF WorkerThrows, WorkerIdle, LiveCallsAreGuarded, rows, sweeper
<1>3. CASE SweepThrows
  <2>1. UNCHANGED <<status, before, lock, wpc, job, plan, batch>>
    BY <1>3 DEF SweepThrows, rows, worker
  <2>2. (Recovering' <=> Recovering) /\ (Polling' <=> Polling)
    BY <1>0, <1>3 DEF SweepThrows, Recovering, Polling
  <2>3. BatchInv' /\ LockInv'
    BY <1>0, <2>1, <2>2 DEF BatchInv, LockInv
  <2> QED
    BY <2>1, <2>3 DEF LiveCallsAreGuarded
<1>4. CASE Crash
  <2>1. UNCHANGED <<status, plan>> /\ wpc' = "idle" /\ spc' = "idle"
        /\ lock' = "free" /\ batch' = {}
    BY <1>4 DEF Crash, rows
  <2>2. LockInv' /\ CallInv' /\ TodoInv' /\ BatchInv'
    BY <2>1 DEF LockInv, CallInv, TodoInv, BatchInv, InCall, Recovering, Polling
  <2> QED
    BY <2>1, <2>2 DEF LiveCallsAreGuarded
<1> QED
  BY <1>1, <1>2, <1>3, <1>4 DEF Environment

\* Every step keeps live calls guarded.
LEMMA GuardStep ==
  TypeOK /\ LiveCallsAreGuarded /\ [Next]_vars => LiveCallsAreGuarded'
<1>1. LiveCallsAreGuarded /\ UNCHANGED vars => LiveCallsAreGuarded'
  BY GuardFrame DEF LiveCallsAreGuarded, vars, rows, worker, sweeper
<1> QED
  BY <1>1, GuardWorker, GuardSweep, GuardReview, GuardEnvironment DEF Next

\* A live call's item stays marked 'sending' under the worker's lock, whatever
\* the sweep, a reviewer, a crash or a top-up does meanwhile.
THEOREM LiveCallsGuarded == Spec => []LiveCallsAreGuarded
BY GuardInit, GuardStep, TypeInit, TypeStep, PTL DEF Spec

\* What the sweep settles is never what the worker is calling about.
LEMMA SweepKeepsCall ==
  ASSUME TypeOK, LiveCallsAreGuarded, SweepStep, InCall
  PROVE  status'[job.item] = status[job.item]
<1>0. /\ LockInv /\ CallInv /\ BatchInv /\ job.item \in Items
      /\ status \in [Items -> ItemStatuses]
  BY DEF LiveCallsAreGuarded, TypeOK, RowsOK, WorkerOK, InCall
<1>1. ASSUME NEW r \in batch,
             PollCompleted(r) \/ PollEscalates(r) \/ RecoverItem(r)
      PROVE  status'[job.item] = status[job.item]
  <2>1. PICK to, then : SettleRow(r, to, then)
    BY <1>1 DEF PollCompleted, PollEscalates, RecoverItem
  <2>2. r.item # job.item
    BY <1>0, <1>1 DEF PollCompleted, PollEscalates, RecoverItem, CallInv,
       LockInv, Recovering, BatchInv, Polling, InCall
  <2> QED
    BY <1>0, <2>1, <2>2 DEF SettleRow
<1>2. CASE UNCHANGED status
  BY <1>2
<1> QED
  BY <1>1, <1>2 DEF SweepStep, PollQuery, RecoverQuery, TryLock, RecoverDone,
     SkipRow, Escalate, RefreshLoad, RefreshWrite, rows

\* A review that commits finds its items as it loaded them, none being sent.
LEMMA ReviewKeepsCall ==
  ASSUME TypeOK, LiveCallsAreGuarded, ReviewStep, InCall
  PROVE  status'[job.item] = status[job.item]
<1>0. /\ CallInv /\ PlanInv /\ job.item \in Items
      /\ status \in [Items -> ItemStatuses]
  BY DEF LiveCallsAreGuarded, TypeOK, RowsOK, WorkerOK, InCall
<1>1. CASE ApplyReview
  BY <1>0, <1>1 DEF ApplyReview, Unmoved, PlanInv, CallInv, InCall
<1>2. CASE UNCHANGED status
  BY <1>2
<1> QED
  BY <1>1, <1>2 DEF ReviewStep, PlanDelivered, PlanNotDelivered,
     PlanDeliveredManually, PlanResume, PlanRefund, PlanRefundDone, Propose, rows

\* While a call is out only its own settlement changes its item's status.
LEMMA CallStep ==
  ASSUME TypeOK, LiveCallsAreGuarded, [Next]_vars, InCall,
         status'[job.item] # status[job.item]
  PROVE  wpc = "answered" /\ wpc' \in { "next", "idle" }
<1>1. CASE WorkerStep
  BY <1>1 DEF WorkerStep, InCall, Claim, HoldLoad, HoldWrite, LoadOrder,
     PreflightShort, PreflightPasses, IsNext, RefuseInactive, TakeLock,
     MarkSending, Purchase, Settle, RunOver, FinishLoad, FinishWrite,
     WorkerIdle, rows
<1>2. CASE Environment
  BY <1>2 DEF Environment, ConfirmPayment, GrowOld, LandLate, Withdraw,
     ToggleEmergency, TopUp, WorkerThrows, SweepThrows, Crash, rows
<1>3. CASE UNCHANGED vars
  BY <1>3 DEF vars, rows
<1> QED
  BY <1>1, <1>2, <1>3, SweepKeepsCall, ReviewKeepsCall DEF Next

\* Recovery, polling and reviewers never settle the item of a call that is
\* still out, in any step of any behaviour.
THEOREM LiveCallsAreLeftAlone == Spec => NoVerdictUnderLiveCall
<1>1. /\ TypeOK /\ LiveCallsAreGuarded /\ [Next]_vars
      => [\A i \in Items :
            /\ wpc \in { "calling", "answered" } /\ job.item = i
            /\ status'[i] # status[i]
            => wpc = "answered" /\ wpc' \in { "next", "idle" }]_vars
  BY CallStep DEF InCall
<1> QED
  BY <1>1, TypeCorrect, LiveCallsGuarded, PTL DEF Spec, NoVerdictUnderLiveCall

------------------------------------------------------------------------------
(* Deliveries: the wallet's two readings rule out a charge before anything *)
(* is sent again, where the wallet moves by this application's own calls   *)
(* alone, each within its timeout.                                         *)

\* Nobody tops the wallet up, and no request lands after its call has timed
\* out: the two events reconcile.ts has no way to tell from the calls it
\* judges.
QuietWallet == TopUps = {} /\ "ambiguous_late" \notin Outcomes

\* A wallet that fell by an item's price since the reading is never taken for
\* one that did not move.
LEMMA ChargeIsSeen ==
  ASSUME NEW b \in Int, NEW a \in Int, NEW c \in Nat \ {0}, NEW d \in Nat,
         d > ToleranceFor(c), a <= b - d
  PROVE  ResolveAmbiguous(b, a, c) # "not_charged"
BY DEF ResolveAmbiguous, ToleranceFor, AbsVal, ToleranceFloor

\* The same for the verdict on an item of the model.
LEMMA VerdictSeesCharge ==
  ASSUME NEW i \in Items, NEW reading \in Int, wallet \in Int,
         wallet <= reading - Debit[i]
  PROVE  Verdict(i, reading) # "not_charged"
<1>1. /\ Cost[i] \in Nat \ {0} /\ Debit[i] \in Nat
      /\ Debit[i] > ToleranceFor(Cost[i])
  BY PriceAssumption
<1> QED
  BY <1>1, ChargeIsSeen DEF Verdict

\* MoneyInv, one part each.
MoneyItems ==
  \A i \in Items :
    /\ charged[i] \in {0, 1}
    /\ status[i] \in Dispatchable => charged[i] = 0 /\ i \notin byHand
    /\ i \in byHand => status[i] = "succeeded" /\ charged[i] = 0
MoneyReadings ==
  \A i \in Items : status[i] \in Settleable =>
    /\ wallet <= before[i]
    /\ charged[i] = 1 => wallet <= before[i] - Debit[i]
MoneyBatch ==
  \A r \in batch :
    /\ wallet <= r.reading
    /\ status[r.item] \in Settleable => before[r.item] <= r.reading

\* The parts together are the invariant the runs check.
LEMMA MoneyParts ==
  MoneyInv <=> late = {} /\ MoneyItems /\ MoneyReadings /\ MoneyBatch
BY DEF MoneyInv, MoneyItems, MoneyReadings, MoneyBatch

\* No step before a purchase has moved anything.
LEMMA MoneyInit == Init => RetriesAreUncharged
BY DEF Init, RetriesAreUncharged, MoneyInv, HandInv, Dispatchable, Settleable,
       NoPlan

\* What the steps below assume, spelled out.
LEMMA MoneyFacts ==
  ASSUME TypeOK, LiveCallsAreGuarded, RetriesAreUncharged
  PROVE  /\ late = {} /\ MoneyItems /\ MoneyReadings /\ MoneyBatch /\ HandInv
         /\ LockInv /\ CallInv /\ BatchInv /\ PlanInv
         /\ status \in [Items -> ItemStatuses] /\ charged \in [Items -> Nat]
         /\ before \in [Items -> Int] /\ wallet \in Int
         /\ batch \subseteq Snapshots /\ byHand \subseteq Items
         /\ job \in Jobs /\ job.reading \in Int
         /\ wpc \in { "locked", "calling", "answered" } => job.item \in Items
         /\ DOMAIN plan.was \subseteq Items
BY MoneyParts DEF TypeOK, LiveCallsAreGuarded, RetriesAreUncharged, RowsOK,
   ProviderOK, SweepOK, WorkerOK, Jobs, PlanOK, Plans

\* A step that moves no money, no item and no reading keeps the money right.
LEMMA MoneyFrame ==
  ASSUME RetriesAreUncharged,
         UNCHANGED <<status, before, charged, wallet, late, byHand>>,
         batch' \subseteq batch
  PROVE  MoneyInv'
BY MoneyParts DEF RetriesAreUncharged, MoneyInv

\* Off the lock the worker has no call in hand for HandInv to speak of.
LEMMA HandIdle ==
  ASSUME RetriesAreUncharged, UNCHANGED <<charged, plan>>,
         wpc' \notin { "locked", "calling", "answered" }
  PROVE  HandInv'
BY DEF RetriesAreUncharged, HandInv

\* The worker sends only what was never charged and settles as failed only
\* what the wallet, or the provider's own refusal, says was not.
LEMMA MoneyWorker ==
  TypeOK /\ LiveCallsAreGuarded /\ RetriesAreUncharged /\ QuietWallet
    /\ WorkerStep => RetriesAreUncharged'
<1> SUFFICES ASSUME TypeOK, LiveCallsAreGuarded, RetriesAreUncharged,
                    QuietWallet, WorkerStep
             PROVE  RetriesAreUncharged'
  OBVIOUS
<1> USE MoneyFrame, HandIdle
<1>0. /\ late = {} /\ MoneyItems /\ MoneyReadings /\ MoneyBatch /\ HandInv
      /\ LockInv /\ CallInv /\ BatchInv /\ PlanInv
      /\ status \in [Items -> ItemStatuses] /\ charged \in [Items -> Nat]
      /\ before \in [Items -> Int] /\ wallet \in Int
      /\ batch \subseteq Snapshots /\ byHand \subseteq Items
      /\ job \in Jobs /\ job.reading \in Int
      /\ wpc \in { "locked", "calling", "answered" } => job.item \in Items
      /\ DOMAIN plan.was \subseteq Items
  BY MoneyFacts
<1>1. ASSUME UNCHANGED <<status, before, charged, wallet, late, byHand, batch, plan>>,
             wpc' \notin { "locked", "calling", "answered" }
      PROVE  RetriesAreUncharged'
  BY <1>1 DEF RetriesAreUncharged
<1>2. ASSUME NEW o \in Orders, Claim(o) PROVE RetriesAreUncharged'
  BY <1>1, <1>2 DEF Claim, provider, sweeper
<1>3. CASE HoldLoad \/ HoldWrite \/ LoadOrder \/ PreflightShort
           \/ PreflightPasses \/ RunOver \/ FinishLoad \/ FinishWrite
  BY <1>1, <1>3 DEF HoldLoad, HoldWrite, LoadOrder, PreflightShort,
     PreflightPasses, RunOver, FinishLoad, FinishWrite, WorkerIdle, provider,
     sweeper, rows
<1>4. ASSUME NEW i \in job.todo, RefuseInactive(i) PROVE RetriesAreUncharged'
  <2>1. status[i] \notin Settleable
    BY <1>4 DEF RefuseInactive, IsNext, TodoInv, LiveCallsAreGuarded
  <2> QED
    BY <1>1, <1>4, <2>1 DEF RefuseInactive, WorkerIdle, provider, sweeper
<1>5. ASSUME NEW i \in job.todo, TakeLock(i) PROVE RetriesAreUncharged'
  <2>1. /\ job' = [ job EXCEPT !.item = i, !.reading = wallet ]
        /\ wpc' = "locked"
        /\ UNCHANGED <<status, before, charged, wallet, late, byHand, batch, plan>>
    BY <1>5 DEF TakeLock, IsNext, rows, sweeper, provider
  <2>2. job'.reading = wallet
    BY <1>0, <2>1 DEF Jobs
  <2>3. HandInv'
    BY <1>0, <2>1, <2>2 DEF HandInv
  <2> QED
    BY <2>1, <2>3 DEF RetriesAreUncharged
<1>6. CASE MarkSending
  <2>1. CASE status[job.item] \in Dispatchable
    <3>1. /\ status' = [ status EXCEPT ![job.item] = "sending" ]
          /\ before' = [ before EXCEPT ![job.item] = job.reading ]
          /\ wpc = "locked" /\ wpc' = "calling" /\ job.item \in Items
          /\ UNCHANGED <<job, charged, wallet, late, byHand, batch, plan>>
      BY <1>0, <1>6, <2>1 DEF MarkSending, sweeper, provider
    <3>2. job.reading = wallet /\ charged[job.item] = 0 /\ job.item \notin byHand
      BY <1>0, <2>1, <3>1 DEF HandInv, MoneyItems
    <3>3. MoneyItems'
      BY <1>0, <3>1, <3>2 DEF MoneyItems, Dispatchable
    <3>4. MoneyReadings'
      BY <1>0, <3>1, <3>2 DEF MoneyReadings, Settleable
    <3>5. MoneyBatch'
      BY <1>0, <3>1, <3>2 DEF MoneyBatch, Settleable, Snapshots
    <3>6. HandInv'
      BY <1>0, <3>1, <3>2 DEF HandInv
    <3> QED
      BY <1>0, <3>1, <3>3, <3>4, <3>5, <3>6, MoneyParts DEF RetriesAreUncharged, MoneyInv,
         MoneyItems, MoneyReadings, MoneyBatch
  <2>2. CASE status[job.item] \notin Dispatchable
    BY <1>1, <1>6, <2>2 DEF MarkSending, WorkerIdle, sweeper, provider
  <2> QED
    BY <2>1, <2>2
<1>7. ASSUME NEW kind \in OutcomeKinds, Purchase(kind) PROVE RetriesAreUncharged'
  <2>1. /\ job' = [ job EXCEPT !.outcome = kind ]
        /\ wpc = "calling" /\ wpc' = "answered" /\ job.item \in Items
        /\ UNCHANGED <<status, before, byHand, batch, plan>>
    BY <1>0, <1>7 DEF Purchase, rows, sweeper
  <2>2. late' = {}
    BY <1>0, <1>7 DEF Purchase, QuietWallet
  <2>3. job'.item = job.item /\ job'.outcome = kind
    BY <1>0, <2>1 DEF Jobs
  <2>4. /\ status[job.item] = "sending" /\ before[job.item] = job.reading
        /\ job.reading = wallet /\ charged[job.item] = 0
        /\ job.item \notin byHand /\ Debit[job.item] \in Nat
    BY <1>0, <2>1, PriceAssumption DEF CallInv, InCall, HandInv, MoneyItems
  <2>5. CASE kind \in Lands
    <3>1. /\ wallet' = wallet - Debit[job.item]
          /\ charged' = [ charged EXCEPT ![job.item] = @ + 1 ]
      BY <1>7, <2>5 DEF Purchase
    <3>2. wallet' \in Int /\ wallet' <= wallet
      BY <1>0, <2>4, <3>1
    <3>3. charged'[job.item] = 1 /\ \A i \in Items : i # job.item => charged'[i] = charged[i]
      BY <1>0, <2>1, <2>4, <3>1
    <3>4. MoneyItems'
      BY <1>0, <2>1, <2>4, <3>3 DEF MoneyItems, Dispatchable
    <3>5. ASSUME NEW i \in Items, status'[i] \in Settleable
          PROVE  /\ wallet' <= before'[i]
                 /\ charged'[i] = 1 => wallet' <= before'[i] - Debit[i]
      <4>1. /\ wallet <= before[i] /\ before'[i] = before[i] /\ before[i] \in Int
            /\ charged[i] = 1 => wallet <= before[i] - Debit[i]
            /\ Debit[i] \in Nat
        BY <1>0, <2>1, <3>5, PriceAssumption DEF MoneyReadings
      <4>2. CASE i = job.item
        BY <2>4, <3>1, <4>1, <4>2
      <4>3. CASE i # job.item
        BY <1>0, <3>2, <3>3, <4>1, <4>3
      <4> QED
        BY <4>2, <4>3
    <3>6. MoneyBatch'
      BY <1>0, <2>1, <3>2 DEF MoneyBatch, Snapshots
    <3>7. HandInv'
      BY <1>0, <2>1, <2>3, <2>4, <2>5, <3>3 DEF HandInv, Lands, PlanInv
    <3> QED
      BY <2>2, <3>4, <3>5, <3>6, <3>7 DEF RetriesAreUncharged, MoneyInv,
         MoneyItems, MoneyReadings, MoneyBatch
  <2>6. CASE kind \notin Lands
    <3>1. UNCHANGED <<wallet, charged>>
      BY <1>7, <2>6 DEF Purchase
    <3>2. HandInv'
      BY <1>0, <2>1, <2>3, <2>4, <3>1 DEF HandInv
    <3> QED
      BY <1>0, <2>1, <2>2, <3>1, <3>2 DEF RetriesAreUncharged
  <2> QED
    BY <2>5, <2>6
<1>8. CASE Settle
  <2>1. /\ status' = [ status EXCEPT ![job.item] = OutcomeStatus(job.item) ]
        /\ wpc = "answered" /\ wpc' = "next" /\ job.item \in Items
        /\ UNCHANGED <<before, charged, wallet, late, byHand, batch, plan>>
    BY <1>0, <1>8 DEF Settle, sweeper, Settleable, CallInv, InCall, provider
  <2>2. status[job.item] = "sending" /\ before[job.item] = job.reading
        /\ job.item \notin byHand
    BY <1>0, <2>1 DEF CallInv, InCall, MoneyItems
  <2>3. OutcomeStatus(job.item) = "failed" => charged[job.item] = 0
    <3>1. CASE job.outcome \in { "failed_retryable", "failed_permanent" }
      BY <1>0, <2>1, <3>1 DEF HandInv
    <3>2. CASE job.outcome \notin { "failed_retryable", "failed_permanent" }
      <4>1. charged[job.item] = 1 => wallet <= job.reading - Debit[job.item]
        BY <1>0, <2>1, <2>2 DEF MoneyReadings, Settleable
      <4>2. charged[job.item] = 1 =>
              Verdict(job.item, job.reading) # "not_charged"
        BY <1>0, <2>1, <4>1, VerdictSeesCharge
      <4>3. OutcomeStatus(job.item) = "failed" =>
              Verdict(job.item, job.reading) = "not_charged"
        BY <3>2 DEF OutcomeStatus
      <4> QED
        BY <1>0, <2>1, <4>2, <4>3 DEF MoneyItems
    <3> QED
      BY <3>1, <3>2
  <2>4. OutcomeStatus(job.item) \in { "succeeded", "provider_pending",
                                      "failed", "unknown" }
    BY DEF OutcomeStatus
  <2>5. MoneyItems'
    BY <1>0, <2>1, <2>2, <2>3, <2>4 DEF MoneyItems, Dispatchable
  <2>6. MoneyReadings' /\ MoneyBatch'
    BY <1>0, <2>1, <2>2 DEF MoneyReadings, MoneyBatch, Settleable, Snapshots
  <2>7. HandInv'
    BY <1>0, <2>1 DEF HandInv
  <2> QED
    BY <1>0, <2>1, <2>5, <2>6, <2>7 DEF RetriesAreUncharged, MoneyInv,
       MoneyItems, MoneyReadings, MoneyBatch
<1> QED
  BY <1>2, <1>3, <1>4, <1>5, <1>6, <1>7, <1>8 DEF WorkerStep

\* Settling a row of the snapshot as failed, which lets it be sent again, is
\* only for a row the wallet never moved for.
LEMMA MoneyRow ==
  ASSUME TypeOK, LiveCallsAreGuarded, RetriesAreUncharged, NEW r \in batch,
         NEW to \in { "succeeded", "failed", "unknown" }, NEW then,
         SettleRow(r, to, then),
         to = "failed" => Verdict(r.item, r.reading) = "not_charged",
         UNCHANGED <<before, wpc, job, plan, wallet, charged, late, byHand>>
  PROVE  RetriesAreUncharged'
<1>0. /\ late = {} /\ MoneyItems /\ MoneyReadings /\ MoneyBatch /\ HandInv
      /\ LockInv /\ CallInv /\ BatchInv /\ PlanInv
      /\ status \in [Items -> ItemStatuses] /\ charged \in [Items -> Nat]
      /\ before \in [Items -> Int] /\ wallet \in Int
      /\ batch \subseteq Snapshots /\ byHand \subseteq Items
      /\ job \in Jobs /\ job.reading \in Int
      /\ wpc \in { "locked", "calling", "answered" } => job.item \in Items
      /\ DOMAIN plan.was \subseteq Items
  BY MoneyFacts
<1>1. HandInv'
  BY <1>0 DEF HandInv
<1>2. r.item \in Items /\ r.reading \in Int /\ batch' = batch \ {r}
  BY <1>0 DEF SettleRow, Snapshots
<1>3. CASE status[r.item] \in Settleable
  <2>1. status' = [ status EXCEPT ![r.item] = to ]
    BY <1>3 DEF SettleRow
  <2>2. /\ charged[r.item] = 1 => wallet <= before[r.item] - Debit[r.item]
        /\ before[r.item] <= r.reading /\ before[r.item] \in Int
        /\ Debit[r.item] \in Nat /\ charged[r.item] \in {0, 1}
        /\ r.item \notin byHand
    BY <1>0, <1>2, <1>3, PriceAssumption
       DEF MoneyReadings, MoneyBatch, MoneyItems, Settleable
  <2>3. charged[r.item] = 1 => wallet <= r.reading - Debit[r.item]
    BY <1>0, <1>2, <2>2
  <2>4. to = "failed" => charged[r.item] = 0
    BY <1>0, <1>2, <2>2, <2>3, VerdictSeesCharge
  <2>5. MoneyItems'
    BY <1>0, <1>2, <2>1, <2>2, <2>4 DEF MoneyItems, Dispatchable
  <2>6. MoneyReadings' /\ MoneyBatch'
    BY <1>0, <1>2, <2>1 DEF MoneyReadings, MoneyBatch, Settleable, Snapshots
  <2> QED
    BY <1>0, <1>1, <2>5, <2>6 DEF RetriesAreUncharged, MoneyInv, MoneyItems,
       MoneyReadings, MoneyBatch
<1>4. CASE status[r.item] \notin Settleable
  BY <1>1, <1>2, <1>4, MoneyFrame DEF SettleRow, RetriesAreUncharged
<1> QED
  BY <1>3, <1>4

\* The sweep's verdicts are as safe as the worker's, however old the reading.
LEMMA MoneySweep ==
  TypeOK /\ LiveCallsAreGuarded /\ RetriesAreUncharged /\ SweepStep
    => RetriesAreUncharged'
<1> SUFFICES ASSUME TypeOK, LiveCallsAreGuarded, RetriesAreUncharged, SweepStep
             PROVE  RetriesAreUncharged'
  OBVIOUS
<1>0. /\ late = {} /\ MoneyItems /\ MoneyReadings /\ MoneyBatch /\ HandInv
      /\ LockInv /\ CallInv /\ BatchInv /\ PlanInv
      /\ status \in [Items -> ItemStatuses] /\ charged \in [Items -> Nat]
      /\ before \in [Items -> Int] /\ wallet \in Int
      /\ batch \subseteq Snapshots /\ byHand \subseteq Items
      /\ job \in Jobs /\ job.reading \in Int
      /\ wpc \in { "locked", "calling", "answered" } => job.item \in Items
      /\ DOMAIN plan.was \subseteq Items
  BY MoneyFacts
<1>1. UNCHANGED <<before, wpc, job, plan, wallet, charged, late, byHand>>
  BY DEF SweepStep, PollQuery, RecoverQuery, TryLock, RecoverDone,
     PollCompleted, PollEscalates, SkipRow, RecoverItem, Escalate,
     RefreshLoad, RefreshWrite, rows, worker, provider
<1>2. HandInv'
  BY <1>0, <1>1 DEF HandInv
<1>3. CASE PollQuery \/ RecoverQuery
  <2>1. UNCHANGED status
    BY <1>3 DEF PollQuery, RecoverQuery, rows
  <2>2. \A r \in batch' : \E j \in Items : /\ status[j] \in Settleable
                                           /\ r.item = j /\ r.reading = before[j]
    BY <1>3 DEF PollQuery, RecoverQuery, Snapshot, Settleable
  <2>3. MoneyBatch'
    BY <1>0, <1>1, <2>1, <2>2 DEF MoneyBatch, MoneyReadings
  <2> QED
    BY <1>0, <1>1, <1>2, <2>1, <2>3 DEF RetriesAreUncharged, MoneyInv,
       MoneyItems, MoneyReadings, MoneyBatch
<1>4. CASE UNCHANGED status /\ batch' \subseteq batch
  BY <1>1, <1>2, <1>4, MoneyFrame DEF RetriesAreUncharged
<1>5. ASSUME NEW r \in batch,
             PollCompleted(r) \/ PollEscalates(r) \/ RecoverItem(r)
      PROVE  RetriesAreUncharged'
  <2>1. PICK to \in { "succeeded", "failed", "unknown" },
             then \in { "escalate", "refresh" } :
          /\ SettleRow(r, to, then)
          /\ to = "failed" => Verdict(r.item, r.reading) = "not_charged"
    BY <1>5 DEF PollCompleted, PollEscalates, RecoverItem
  <2> QED
    BY <1>1, <2>1, MoneyRow
<1>6. CASE \/ TryLock \/ RecoverDone \/ Escalate \/ RefreshLoad \/ RefreshWrite
           \/ \E r \in batch : SkipRow(r)
  <2>1. UNCHANGED status
    BY <1>6 DEF TryLock, RecoverDone, Escalate, RefreshLoad, RefreshWrite, SkipRow, rows
  <2>2. batch' \subseteq batch
    BY <1>6 DEF TryLock, RecoverDone, Escalate, RefreshLoad, RefreshWrite, SkipRow, sweeper
  <2> QED
    BY <1>4, <2>1, <2>2
<1> QED
  BY <1>3, <1>5, <1>6 DEF SweepStep

\* A review re-queues only what was never charged: a failed item, or an
\* unknown one the admin found missing at the provider.
LEMMA MoneyReview ==
  TypeOK /\ LiveCallsAreGuarded /\ RetriesAreUncharged /\ ReviewStep
    => RetriesAreUncharged'
<1> SUFFICES ASSUME TypeOK, LiveCallsAreGuarded, RetriesAreUncharged, ReviewStep
             PROVE  RetriesAreUncharged'
  OBVIOUS
<1>0. /\ late = {} /\ MoneyItems /\ MoneyReadings /\ MoneyBatch /\ HandInv
      /\ LockInv /\ CallInv /\ BatchInv /\ PlanInv
      /\ status \in [Items -> ItemStatuses] /\ charged \in [Items -> Nat]
      /\ before \in [Items -> Int] /\ wallet \in Int
      /\ batch \subseteq Snapshots /\ byHand \subseteq Items
      /\ job \in Jobs /\ job.reading \in Int
      /\ wpc \in { "locked", "calling", "answered" } => job.item \in Items
      /\ DOMAIN plan.was \subseteq Items
  BY MoneyFacts
<1>1. ASSUME NEW kind, NEW o, NEW next, NEW S \in SUBSET Items,
             Propose(kind, o, next, S),
             kind = "requeue" =>
               \A i \in S : status[i] = "unknown" => charged[i] = 0
      PROVE  RetriesAreUncharged'
  <2>1. UNCHANGED <<status, before, charged, wallet, late, byHand, batch, wpc, job>>
    BY <1>1 DEF Propose, rows, worker, sweeper, provider
  <2>2. plan'.was = [ i \in S |-> status[i] ] /\ plan'.kind = kind
    BY <1>1 DEF Propose
  <2>3. HandInv'
    BY <1>0, <1>1, <2>1, <2>2 DEF HandInv
  <2> QED
    BY <2>1, <2>3, MoneyFrame DEF RetriesAreUncharged
<1>2. ASSUME NEW i \in Items,
             PlanDelivered(i) \/ PlanNotDelivered(i) \/ PlanDeliveredManually(i)
      PROVE  RetriesAreUncharged'
  BY <1>1, <1>2 DEF PlanDelivered, PlanNotDelivered, PlanDeliveredManually
<1>3. ASSUME NEW o \in Orders,
             PlanResume(o) \/ PlanRefund(o) \/ PlanRefundDone(o)
      PROVE  RetriesAreUncharged'
  <2>1. CASE PlanResume(o)
    <3>1. { i \in ItemsOf(o) : status[i] \in Dispatchable } \subseteq Items
      BY DEF ItemsOf
    <3> QED
      BY <1>1, <2>1, <3>1 DEF PlanResume, Dispatchable
  <2>2. CASE PlanRefund(o) \/ PlanRefundDone(o)
    BY <1>1, <2>2 DEF PlanRefund, PlanRefundDone
  <2> QED
    BY <1>3, <2>1, <2>2
<1>4. CASE ApplyReview
  <2>1. UNCHANGED <<before, charged, wallet, late, batch, wpc, job>>
    BY <1>4 DEF ApplyReview, worker, sweeper, provider
  <2>2. HandInv'
    BY <1>0, <1>4, <2>1 DEF ApplyReview, HandInv, NoPlan
  <2>3. CASE ~Unmoved
    BY <1>4, <2>1, <2>2, <2>3, MoneyFrame DEF ApplyReview, RetriesAreUncharged
  <2>4. CASE Unmoved
    <3>1. \A i \in Items :
            \/ /\ status'[i] = status[i] /\ i \notin DOMAIN plan.was
               /\ i \in byHand' <=> i \in byHand
            \/ /\ i \in DOMAIN plan.was /\ status[i] = plan.was[i]
               /\ status'[i] = "queued" /\ plan.kind = "requeue"
               /\ byHand' = byHand
            \/ /\ i \in DOMAIN plan.was /\ status[i] = plan.was[i]
               /\ status'[i] = "succeeded" /\ plan.kind # "requeue"
               /\ \/ byHand' = byHand
                  \/ plan.kind = "by_hand"
      BY <1>0, <1>4, <2>4 DEF ApplyReview, Unmoved
    <3>2. MoneyItems'
      <4> SUFFICES ASSUME NEW i \in Items
                   PROVE  /\ charged'[i] \in {0, 1}
                          /\ status'[i] \in Dispatchable =>
                               charged'[i] = 0 /\ i \notin byHand'
                          /\ i \in byHand' =>
                               status'[i] = "succeeded" /\ charged'[i] = 0
        BY DEF MoneyItems
      <4> QED
        BY <1>0, <2>1, <3>1 DEF MoneyItems, HandInv, PlanInv, Dispatchable
    <3>3. MoneyReadings' /\ MoneyBatch'
      BY <1>0, <2>1, <3>1 DEF MoneyReadings, MoneyBatch, Settleable, Snapshots
    <3> QED
      BY <1>0, <2>1, <2>2, <3>2, <3>3 DEF RetriesAreUncharged, MoneyInv,
         MoneyItems, MoneyReadings, MoneyBatch
  <2> QED
    BY <2>3, <2>4
<1> QED
  BY <1>2, <1>3, <1>4 DEF ReviewStep

\* Crashes and exceptions lose memory, never money; in a quiet wallet nothing
\* else moves it.
LEMMA MoneyEnvironment ==
  TypeOK /\ LiveCallsAreGuarded /\ RetriesAreUncharged /\ QuietWallet
    /\ Environment => RetriesAreUncharged'
<1> SUFFICES ASSUME TypeOK, LiveCallsAreGuarded, RetriesAreUncharged,
                    QuietWallet, Environment
             PROVE  RetriesAreUncharged'
  OBVIOUS
<1>0. late = {} /\ HandInv
  BY MoneyFacts
<1>1. ~ (\E amount \in TopUps : TopUp(amount))
      /\ ~ (\E i \in Items : LandLate(i))
  BY <1>0 DEF QuietWallet, LandLate
<1>2. /\ UNCHANGED <<status, before, charged, wallet, late, byHand, plan>>
      /\ batch' \subseteq batch
      /\ wpc' = "idle" \/ UNCHANGED <<wpc, job>>
  BY <1>1 DEF Environment, ConfirmPayment, GrowOld, Withdraw, ToggleEmergency,
     WorkerThrows, WorkerIdle, SweepThrows, Crash, rows, worker, sweeper, provider
<1>3. HandInv'
  BY <1>0, <1>2 DEF HandInv
<1> QED
  BY <1>2, <1>3, MoneyFrame DEF RetriesAreUncharged

\* Every step keeps the retries uncharged.
LEMMA MoneyStep ==
  TypeOK /\ LiveCallsAreGuarded /\ RetriesAreUncharged /\ QuietWallet
    /\ [Next]_vars => RetriesAreUncharged'
<1>1. RetriesAreUncharged /\ UNCHANGED vars => RetriesAreUncharged'
  BY DEF RetriesAreUncharged, MoneyInv, HandInv, vars, rows, worker, sweeper,
     provider
<1> QED
  BY <1>1, MoneyWorker, MoneySweep, MoneyReview, MoneyEnvironment DEF Next

\* An item that may be sent again was never charged for, and an unsettled
\* call's charge shows in the wallet.
THEOREM RetriesUncharged ==
  ASSUME QuietWallet
  PROVE  Spec => []RetriesAreUncharged
<1>1. TypeOK /\ LiveCallsAreGuarded /\ RetriesAreUncharged /\ [Next]_vars
      => RetriesAreUncharged'
  BY MoneyStep
<1> QED
  BY <1>1, MoneyInit, TypeCorrect, LiveCallsGuarded, PTL DEF Spec

\* The customer is never given an item twice, for any orders, prices, crashes,
\* exceptions, reviews (one at a time) and interleavings.
THEOREM NeverTwice ==
  ASSUME QuietWallet
  PROVE  Spec => []DeliveredOnce
<1>1. RetriesAreUncharged => DeliveredOnce
  BY MoneyParts DEF RetriesAreUncharged, MoneyItems, DeliveredOnce
<1> QED
  BY <1>1, RetriesUncharged, PTL

------------------------------------------------------------------------------
(* Orders: three writers decide 'completed' from rows they loaded earlier, *)
(* and the budget of retries is only read at the load.                     *)

\* Delivered is for ever: no write takes an item out of 'succeeded'.
LEMMA SucceededStays ==
  ASSUME TypeOK, LiveCallsAreGuarded, [Next]_vars, NEW i \in Items,
         status[i] = "succeeded"
  PROVE  status'[i] = "succeeded"
<1>0. /\ status \in [Items -> ItemStatuses] /\ CallInv /\ PlanInv
      /\ DOMAIN plan.was \subseteq Items
  BY DEF TypeOK, LiveCallsAreGuarded, RowsOK, PlanOK, Plans
<1>1. CASE UNCHANGED status
  BY <1>1
<1>2. CASE MarkSending
  BY <1>0, <1>2 DEF MarkSending, Dispatchable
<1>3. CASE Settle
  BY <1>0, <1>3 DEF Settle, Settleable
<1>4. ASSUME NEW j \in job.todo, RefuseInactive(j) PROVE status'[i] = "succeeded"
  BY <1>0, <1>4 DEF RefuseInactive, Settleable
<1>5. ASSUME NEW r \in batch,
             PollCompleted(r) \/ PollEscalates(r) \/ RecoverItem(r)
      PROVE  status'[i] = "succeeded"
  <2>1. PICK to, then : SettleRow(r, to, then)
    BY <1>5 DEF PollCompleted, PollEscalates, RecoverItem
  <2> QED
    BY <1>0, <2>1 DEF SettleRow, Settleable
<1>6. CASE ApplyReview
  BY <1>0, <1>6 DEF ApplyReview, Unmoved, PlanInv
<1>7. CASE WorkerStep
  BY <1>1, <1>2, <1>3, <1>4, <1>7 DEF WorkerStep, Claim, HoldLoad, HoldWrite,
     LoadOrder, PreflightShort, PreflightPasses, TakeLock, Purchase, RunOver,
     FinishLoad, FinishWrite, rows
<1>8. CASE SweepStep
  BY <1>1, <1>5, <1>8 DEF SweepStep, PollQuery, RecoverQuery, TryLock,
     RecoverDone, SkipRow, Escalate, RefreshLoad, RefreshWrite, rows
<1>9. CASE ReviewStep
  BY <1>1, <1>6, <1>9 DEF ReviewStep, PlanDelivered, PlanNotDelivered,
     PlanDeliveredManually, PlanResume, PlanRefund, PlanRefundDone, Propose, rows
<1>10. CASE Environment
  BY <1>1, <1>10 DEF Environment, ConfirmPayment, GrowOld, LandLate, Withdraw,
     ToggleEmergency, TopUp, WorkerThrows, SweepThrows, Crash, rows
<1>11. CASE UNCHANGED vars
  BY <1>1, <1>11 DEF vars, rows
<1> QED
  BY <1>7, <1>8, <1>9, <1>10, <1>11 DEF Next

\* An order only derives 'completed' from items that are all delivered.
LEMMA DerivedIsWhole ==
  \A o : Derived(o) = "completed" => Whole(o)
<1>1. \A o : DOMAIN View(o) = ItemsOf(o)
             /\ \A i \in ItemsOf(o) : View(o)[i].status = status[i]
  BY DEF View
<1> QED
  BY <1>1 DEF Derived, DeriveOrderStatus, Whole

\* A whole order stays whole.
LEMMA WholeStays ==
  ASSUME TypeOK, LiveCallsAreGuarded, [Next]_vars, NEW o, Whole(o)
  PROVE  Whole(o)'
BY SucceededStays DEF Whole, ItemsOf

\* Nothing is completed before anything is paid.
LEMMA WholeInit == Init => WholeInv
BY DEF Init, WholeInv, CompletedIsWhole, NoPlan

\* Parts of WholeInv that a step leaves alone survive it.
LEMMA WholeFrame ==
  ASSUME TypeOK, LiveCallsAreGuarded, WholeInv, [Next]_vars
  PROVE  /\ (\A o \in Orders : orderStatus'[o] = "completed" =>
               orderStatus[o] = "completed" \/ Whole(o)')
              => CompletedIsWhole'
         /\ (\/ wpc' # "finishing" \/ UNCHANGED <<wpc, job>>
             \/ job'.final = "completed" => Whole(job'.order))
              => (wpc = "finishing" /\ job.final = "completed"
                    => Whole(job.order))'
         /\ (\/ spc' # "refreshing" \/ UNCHANGED <<spc, sjob>>
             \/ sjob'.final = "completed" => Whole(sjob'.order))
              => (spc = "refreshing" /\ sjob.final = "completed"
                    => Whole(sjob.order))'
         /\ UNCHANGED plan =>
              (plan.next = "completed" =>
                 /\ plan.kind # "requeue"
                 /\ \A i \in ItemsOf(plan.order) :
                      i \in DOMAIN plan.was \/ status[i] = "succeeded")'
<1>1. /\ \A o : Whole(o) => Whole(o)'
      /\ \A i \in Items : status[i] = "succeeded" => status'[i] = "succeeded"
      /\ \A o : ItemsOf(o) \subseteq Items
  BY WholeStays, SucceededStays DEF ItemsOf
<1> QED
  BY <1>1 DEF WholeInv, CompletedIsWhole, Whole, ItemsOf

\* Whoever writes 'completed' writes it over a whole order.
LEMMA CompletedWrites ==
  ASSUME TypeOK, LiveCallsAreGuarded, WholeInv, [Next]_vars,
         NEW o \in Orders, orderStatus'[o] = "completed"
  PROVE  orderStatus[o] = "completed" \/ Whole(o)'
<1>0. orderStatus \in [Orders -> OrderStatuses] /\ status \in [Items -> ItemStatuses]
  BY DEF TypeOK, RowsOK
<1>1. CASE UNCHANGED orderStatus
  BY <1>1
<1>2. CASE FinishWrite
  <2>1. UNCHANGED status /\ wpc = "finishing"
    BY <1>2 DEF FinishWrite
  <2>2. \/ orderStatus'[o] = orderStatus[o]
        \/ o = job.order /\ orderStatus'[o] = job.final
    BY <1>0, <1>2 DEF FinishWrite
  <2> QED
    BY <2>1, <2>2, WholeStays DEF WholeInv
<1>3. CASE RefreshWrite
  <2>1. \/ orderStatus'[o] = orderStatus[o]
        \/ o = sjob.order /\ orderStatus'[o] = sjob.final
    BY <1>0, <1>3 DEF RefreshWrite
  <2>2. spc = "refreshing"
    BY <1>3 DEF RefreshWrite
  <2> QED
    BY <2>1, <2>2, WholeStays DEF WholeInv
<1>4. CASE ApplyReview
  <2>1. CASE orderStatus'[o] = orderStatus[o]
    BY <2>1
  <2>2. CASE orderStatus'[o] # orderStatus[o]
    <3>1. Unmoved /\ o = plan.order /\ plan.next = "completed"
      BY <1>0, <1>4, <2>2 DEF ApplyReview
    <3>2. /\ plan.kind # "requeue"
          /\ \A i \in ItemsOf(o) : i \in DOMAIN plan.was \/ status[i] = "succeeded"
      BY <3>1 DEF WholeInv
    <3>3. \A i \in ItemsOf(o) : status'[i] = "succeeded"
      BY <1>4, <3>1, <3>2 DEF ApplyReview, ItemsOf
    <3> QED
      BY <3>3 DEF Whole, ItemsOf
  <2> QED
    BY <2>1, <2>2
<1>5. CASE WorkerStep
  <2>1. CASE \/ \E p \in Orders : Claim(p)
             \/ HoldWrite \/ PreflightShort \/ PreflightPasses
    BY <1>0, <2>1 DEF Claim, HoldWrite, PreflightShort, PreflightPasses
  <2>2. CASE \/ \E i \in job.todo : RefuseInactive(i) \/ TakeLock(i)
             \/ \E kind \in OutcomeKinds : Purchase(kind)
             \/ HoldLoad \/ LoadOrder \/ MarkSending \/ Settle \/ RunOver
             \/ FinishLoad
    BY <1>1, <2>2 DEF HoldLoad, LoadOrder, RefuseInactive, TakeLock,
       MarkSending, Purchase, Settle, RunOver, FinishLoad, rows
  <2> QED
    BY <1>2, <1>5, <2>1, <2>2 DEF WorkerStep
<1>6. CASE SweepStep
  <2>1. CASE Escalate
    BY <1>0, <2>1 DEF Escalate
  <2>2. CASE \/ PollQuery \/ RecoverQuery \/ TryLock \/ RecoverDone \/ RefreshLoad
             \/ \E r \in batch : PollCompleted(r) \/ PollEscalates(r)
                                 \/ SkipRow(r) \/ RecoverItem(r)
    BY <1>1, <2>2 DEF PollQuery, RecoverQuery, TryLock, RecoverDone,
       PollCompleted, PollEscalates, SkipRow, RecoverItem, RefreshLoad, rows
  <2> QED
    BY <1>3, <1>6, <2>1, <2>2 DEF SweepStep
<1>7. CASE ReviewStep
  BY <1>1, <1>4, <1>7 DEF ReviewStep, PlanDelivered, PlanNotDelivered,
     PlanDeliveredManually, PlanResume, PlanRefund, PlanRefundDone, Propose, rows
<1>8. CASE Environment
  <2>1. CASE \E p \in Orders : ConfirmPayment(p)
    BY <1>0, <2>1 DEF ConfirmPayment
  <2> QED
    BY <1>1, <1>8, <2>1 DEF Environment, GrowOld, LandLate, Withdraw,
       ToggleEmergency, TopUp, WorkerThrows, SweepThrows, Crash, rows
<1>9. CASE UNCHANGED vars
  BY <1>1, <1>9 DEF vars, rows
<1> QED
  BY <1>5, <1>6, <1>7, <1>8, <1>9 DEF Next

\* The worker comes to its last write from one load of the order.
LEMMA FinishLoads ==
  ASSUME [Next]_vars, wpc' = "finishing", ~ UNCHANGED <<wpc, job>>
  PROVE  FinishLoad
BY DEF Next, WorkerStep, Claim, HoldLoad, HoldWrite, LoadOrder,
   PreflightShort, PreflightPasses, RefuseInactive, TakeLock, MarkSending,
   Purchase, Settle, RunOver, FinishWrite, WorkerIdle, SweepStep, PollQuery,
   RecoverQuery, TryLock, RecoverDone, PollCompleted, PollEscalates, SkipRow,
   RecoverItem, Escalate, RefreshLoad, RefreshWrite, ReviewStep,
   PlanDelivered, PlanNotDelivered, PlanDeliveredManually, PlanResume,
   PlanRefund, PlanRefundDone, Propose, ApplyReview, Environment,
   ConfirmPayment, GrowOld, LandLate, Withdraw, ToggleEmergency, TopUp,
   WorkerThrows, SweepThrows, Crash, vars, worker

\* And so does the sweep.
LEMMA RefreshLoads ==
  ASSUME TypeOK, [Next]_vars, spc' = "refreshing", ~ UNCHANGED <<spc, sjob>>
  PROVE  RefreshLoad
<1>0. /\ sjob \in SweepJobs
      /\ spc \in { "escalate", "refresh", "refreshing" } =>
           sjob.back \in { "poll", "recover" }
  BY DEF TypeOK, SweepOK
<1>1. ~ \E r \in batch : PollCompleted(r) \/ PollEscalates(r)
                         \/ SkipRow(r) \/ RecoverItem(r)
  BY DEF PollCompleted, PollEscalates, SkipRow, RecoverItem, SettleRow
<1>2. ~ (PollQuery \/ RecoverQuery \/ TryLock \/ RecoverDone \/ Escalate
         \/ RefreshWrite \/ SweepThrows \/ Crash)
  BY <1>0 DEF PollQuery, RecoverQuery, TryLock, RecoverDone, Escalate,
     RefreshWrite, SweepThrows, Crash
<1> QED
  BY <1>1, <1>2 DEF Next, WorkerStep, Claim, HoldLoad, HoldWrite, LoadOrder,
     PreflightShort, PreflightPasses, RefuseInactive, TakeLock, MarkSending,
     Purchase, Settle, RunOver, FinishLoad, FinishWrite, SweepStep, ReviewStep,
     PlanDelivered, PlanNotDelivered, PlanDeliveredManually, PlanResume,
     PlanRefund, PlanRefundDone, Propose, ApplyReview, Environment,
     ConfirmPayment, GrowOld, LandLate, Withdraw, ToggleEmergency, TopUp,
     WorkerThrows, vars, sweeper

\* What the worker is about to write was derived from a whole order.
LEMMA WorkerFinal ==
  ASSUME TypeOK, WholeInv, [Next]_vars, wpc' = "finishing",
         ~ UNCHANGED <<wpc, job>>, job'.final = "completed"
  PROVE  Whole(job'.order)
<1>1. FinishLoad
  BY FinishLoads
<1>2. job' = [ NoJob EXCEPT !.order = job.order, !.seen = orderStatus[job.order],
                 !.final = IF job.halted # "no" THEN "needs_review"
                           ELSE Derived(job.order) ]
  BY <1>1 DEF FinishLoad
<1>3. job'.order = job.order /\ job'.final \in { "needs_review", Derived(job.order) }
  BY <1>2, NoJobType DEF Jobs
<1> QED
  BY <1>3, DerivedIsWhole

\* So was what the sweep is about to write.
LEMMA SweepFinal ==
  ASSUME TypeOK, WholeInv, [Next]_vars, spc' = "refreshing",
         ~ UNCHANGED <<spc, sjob>>, sjob'.final = "completed"
  PROVE  Whole(sjob'.order)
<1>1. RefreshLoad
  BY RefreshLoads
<1>2. sjob'.order = sjob.order /\ sjob'.final = Refreshed(sjob.order)
  BY <1>1 DEF RefreshLoad, TypeOK, SweepOK, SweepJobs
<1> QED
  BY <1>2, DerivedIsWhole DEF Refreshed

\* A review that completes an order settles the last item it was missing.
LEMMA PlanWhole ==
  ASSUME TypeOK, LiveCallsAreGuarded, WholeInv, [Next]_vars
  PROVE  (plan.next = "completed" =>
            /\ plan.kind # "requeue"
            /\ \A i \in ItemsOf(plan.order) :
                 i \in DOMAIN plan.was \/ status[i] = "succeeded")'
<1>1. CASE UNCHANGED plan
  BY <1>1, WholeFrame
<1>2. CASE ApplyReview
  BY <1>2 DEF ApplyReview, NoPlan
<1>3. ASSUME NEW kind, NEW o, NEW next, NEW S,
             Propose(kind, o, next, S),
             next = "completed" =>
               /\ kind # "requeue"
               /\ \A i \in ItemsOf(o) : i \in S \/ status[i] = "succeeded"
      PROVE  (plan.next = "completed" =>
                /\ plan.kind # "requeue"
                /\ \A i \in ItemsOf(plan.order) :
                     i \in DOMAIN plan.was \/ status[i] = "succeeded")'
  <2>1. /\ plan'.kind = kind /\ plan'.order = o /\ plan'.next = next
        /\ plan'.was = [ i \in S |-> status[i] ] /\ status' = status
    BY <1>3 DEF Propose, rows
  <2>2. DOMAIN plan'.was = S
    BY <2>1
  <2> QED
    BY <1>3, <2>1, <2>2 DEF ItemsOf
<1>4. ASSUME NEW i \in Items,
             PlanDelivered(i) \/ PlanNotDelivered(i) \/ PlanDeliveredManually(i)
      PROVE  (plan.next = "completed" =>
                /\ plan.kind # "requeue"
                /\ \A j \in ItemsOf(plan.order) :
                     j \in DOMAIN plan.was \/ status[j] = "succeeded")'
  BY <1>3, <1>4 DEF PlanDelivered, PlanNotDelivered, PlanDeliveredManually, OthersDone
<1>5. ASSUME NEW o \in Orders,
             PlanResume(o) \/ PlanRefund(o) \/ PlanRefundDone(o)
      PROVE  (plan.next = "completed" =>
                /\ plan.kind # "requeue"
                /\ \A j \in ItemsOf(plan.order) :
                     j \in DOMAIN plan.was \/ status[j] = "succeeded")'
  BY <1>3, <1>5 DEF PlanResume, PlanRefund, PlanRefundDone
<1>6. CASE WorkerStep
  BY <1>1, <1>6 DEF WorkerStep, Claim, HoldLoad, HoldWrite, LoadOrder,
     PreflightShort, PreflightPasses, RefuseInactive, TakeLock, MarkSending,
     Purchase, Settle, RunOver, FinishLoad, FinishWrite
<1>7. CASE SweepStep
  BY <1>1, <1>7 DEF SweepStep, PollQuery, RecoverQuery, TryLock, RecoverDone,
     PollCompleted, PollEscalates, SkipRow, RecoverItem, Escalate, RefreshLoad,
     RefreshWrite
<1>8. CASE Environment \/ UNCHANGED vars
  BY <1>1, <1>8 DEF Environment, ConfirmPayment, GrowOld, LandLate, Withdraw,
     ToggleEmergency, TopUp, WorkerThrows, SweepThrows, Crash, vars
<1> QED
  BY <1>2, <1>4, <1>5, <1>6, <1>7, <1>8 DEF Next, ReviewStep

\* Every step keeps the three writers honest.
LEMMA WholeStep ==
  TypeOK /\ LiveCallsAreGuarded /\ WholeInv /\ [Next]_vars => WholeInv'
<1> SUFFICES ASSUME TypeOK, LiveCallsAreGuarded, WholeInv, [Next]_vars
             PROVE  WholeInv'
  OBVIOUS
<1>1. CompletedIsWhole'
  BY CompletedWrites, WholeFrame
<1>2. (wpc = "finishing" /\ job.final = "completed" => Whole(job.order))'
  BY WorkerFinal, WholeFrame
<1>3. (spc = "refreshing" /\ sjob.final = "completed" => Whole(sjob.order))'
  BY SweepFinal, WholeFrame
<1> QED
  BY <1>1, <1>2, <1>3, PlanWhole DEF WholeInv

\* A completed order has every item delivered, for ever, whoever wrote the
\* status and however old the rows were that they decided it from.
THEOREM CompletedOrdersAreWhole == Spec => []CompletedIsWhole
<1>1. WholeInv => CompletedIsWhole
  BY DEF WholeInv
<1> QED
  BY <1>1, WholeInit, WholeStep, TypeCorrect, LiveCallsGuarded, PTL DEF Spec

------------------------------------------------------------------------------
(* The retry budget.                                                       *)

\* No attempt has been made, and there is a budget.
LEMMA BudgetInit == Init => BudgetInv
BY BoundAssumption DEF Init, BudgetInv, RetriesAreBounded, InCall

\* Only markItemSending and a review's re-queue touch the count.
LEMMA BudgetStep ==
  TypeOK /\ BudgetInv /\ [Next]_vars => BudgetInv'
<1> SUFFICES ASSUME TypeOK, BudgetInv, [Next]_vars
             PROVE  BudgetInv'
  OBVIOUS
<1>0. /\ attempts \in [Items -> Nat] /\ job \in Jobs /\ job.todo \subseteq Items
      /\ MaxAttempts \in Nat \ {0}
  BY BoundAssumption DEF TypeOK, RowsOK, WorkerOK, Jobs
<1>1. ASSUME UNCHANGED attempts,
             wpc' \notin { "preflight", "next", "locked", "calling", "answered" }
      PROVE  BudgetInv'
  BY <1>1 DEF BudgetInv, RetriesAreBounded, InCall
<1>2. ASSUME UNCHANGED <<attempts, wpc, job>>
      PROVE  BudgetInv'
  BY <1>2 DEF BudgetInv, RetriesAreBounded, InCall
<1>3. CASE LoadOrder
  <2>1. CASE wpc' \in { "idle", "finish" }
    BY <1>1, <1>3, <2>1 DEF LoadOrder, rows
  <2>2. CASE wpc' \notin { "idle", "finish" }
    <3>1. /\ job' = [ job EXCEPT !.todo = PendingItems(job.order),
                       !.inactive = PendingItems(job.order) \cap withdrawn,
                       !.seen = orderStatus[job.order] ]
          /\ wpc' = "preflight" /\ UNCHANGED attempts
      BY <1>3, <2>2 DEF LoadOrder, rows
    <3>2. job'.todo = PendingItems(job.order)
      BY <1>0, <3>1 DEF Jobs
    <3> QED
      BY <3>1, <3>2 DEF BudgetInv, RetriesAreBounded, PendingItems, InCall
  <2> QED
    BY <2>1, <2>2
<1>4. CASE PreflightPasses
  BY <1>4 DEF PreflightPasses, WorkerIdle, BudgetInv, RetriesAreBounded, InCall
<1>5. ASSUME NEW i \in job.todo, RefuseInactive(i) PROVE BudgetInv'
  <2>1. /\ UNCHANGED attempts
        /\ \/ wpc' = "idle"
           \/ /\ wpc = "next" /\ wpc' = "next"
              /\ job' = [ job EXCEPT !.halted = "product_unavailable" ]
    BY <1>5 DEF RefuseInactive, IsNext, WorkerIdle
  <2>2. wpc' = "idle" \/ job'.todo = job.todo
    BY <1>0, <2>1 DEF Jobs
  <2> QED
    BY <2>1, <2>2 DEF BudgetInv, RetriesAreBounded, InCall
<1>6. ASSUME NEW i \in job.todo, TakeLock(i) PROVE BudgetInv'
  <2>1. /\ job' = [ job EXCEPT !.item = i, !.reading = wallet ]
        /\ wpc = "next" /\ wpc' = "locked" /\ UNCHANGED attempts
    BY <1>6 DEF TakeLock, IsNext, rows
  <2>2. job'.todo = job.todo /\ job'.item = i
    BY <1>0, <2>1 DEF Jobs
  <2> QED
    BY <2>1, <2>2 DEF BudgetInv, RetriesAreBounded, InCall
<1>7. CASE MarkSending
  <2>1. CASE wpc' = "idle"
    BY <1>1, <1>7, <2>1 DEF MarkSending
  <2>2. CASE wpc' # "idle"
    <3>1. /\ attempts' = [ attempts EXCEPT ![job.item] = @ + 1 ]
          /\ wpc = "locked" /\ wpc' = "calling" /\ UNCHANGED job
      BY <1>7, <2>2 DEF MarkSending, WorkerIdle
    <3>2. job.item \in job.todo /\ attempts[job.item] < MaxAttempts
      BY <3>1 DEF BudgetInv
    <3> QED
      BY <1>0, <3>1, <3>2 DEF BudgetInv, RetriesAreBounded, InCall
  <2> QED
    BY <2>1, <2>2
<1>8. ASSUME NEW kind \in OutcomeKinds, Purchase(kind) PROVE BudgetInv'
  <2>1. /\ job' = [ job EXCEPT !.outcome = kind ]
        /\ wpc = "calling" /\ wpc' = "answered" /\ UNCHANGED attempts
    BY <1>8 DEF Purchase, rows
  <2>2. job'.todo = job.todo /\ job'.item = job.item
    BY <1>0, <2>1 DEF Jobs
  <2> QED
    BY <2>1, <2>2 DEF BudgetInv, RetriesAreBounded, InCall
<1>9. CASE Settle
  <2>1. CASE wpc' = "idle"
    BY <1>1, <1>9, <2>1 DEF Settle
  <2>2. CASE wpc' # "idle"
    <3>1. /\ job' = [ NoJob EXCEPT !.order = job.order,
                         !.todo = job.todo \ {job.item},
                         !.inactive = job.inactive,
                         !.halted = HaltReason(job.item) ]
          /\ wpc = "answered" /\ wpc' = "next" /\ UNCHANGED attempts
      BY <1>9, <2>2 DEF Settle, WorkerIdle
    <3>2. job'.todo = job.todo \ {job.item}
      BY <3>1, NoJobType DEF Jobs
    <3> QED
      BY <3>1, <3>2 DEF BudgetInv, RetriesAreBounded, InCall
  <2> QED
    BY <2>1, <2>2
<1>10. CASE \/ \E o \in Orders : Claim(o)
            \/ HoldLoad \/ HoldWrite \/ PreflightShort \/ RunOver
            \/ FinishLoad \/ FinishWrite \/ WorkerThrows \/ Crash
  BY <1>1, <1>10 DEF Claim, HoldLoad, HoldWrite, PreflightShort, RunOver,
     FinishLoad, FinishWrite, WorkerThrows, Crash, WorkerIdle, rows
<1>11. CASE SweepStep
  BY <1>2, <1>11 DEF SweepStep, PollQuery, RecoverQuery, TryLock, RecoverDone,
     PollCompleted, PollEscalates, SkipRow, RecoverItem, Escalate, RefreshLoad,
     RefreshWrite, rows, worker
<1>12. CASE ApplyReview
  <2>1. /\ \A i \in Items : attempts'[i] \in { 0, attempts[i] }
        /\ UNCHANGED <<wpc, job>>
    BY <1>0, <1>12 DEF ApplyReview, worker
  <2>2. \A i \in Items : /\ attempts[i] <= MaxAttempts => attempts'[i] <= MaxAttempts
                         /\ attempts[i] < MaxAttempts => attempts'[i] < MaxAttempts
    BY <1>0, <2>1
  <2> QED
    BY <1>0, <2>1, <2>2 DEF BudgetInv, RetriesAreBounded, InCall
<1>13. CASE \/ \E i \in Items : \/ PlanDelivered(i) \/ PlanNotDelivered(i)
                                \/ PlanDeliveredManually(i)
            \/ \E o \in Orders : PlanResume(o) \/ PlanRefund(o) \/ PlanRefundDone(o)
  BY <1>2, <1>13 DEF PlanDelivered, PlanNotDelivered, PlanDeliveredManually,
     PlanResume, PlanRefund, PlanRefundDone, Propose, rows, worker
<1>14. CASE \/ \E o \in Orders : ConfirmPayment(o)
            \/ \E i \in Items : GrowOld(i) \/ LandLate(i) \/ Withdraw(i)
            \/ ToggleEmergency \/ SweepThrows
            \/ \E amount \in TopUps : TopUp(amount)
  BY <1>2, <1>14 DEF ConfirmPayment, GrowOld, LandLate, Withdraw,
     ToggleEmergency, SweepThrows, TopUp, rows, worker
<1>15. CASE UNCHANGED vars
  BY <1>2, <1>15 DEF vars, rows, worker
<1> QED
  BY <1>3, <1>4, <1>5, <1>6, <1>7, <1>8, <1>9, <1>10, <1>11, <1>12, <1>13,
     <1>14, <1>15 DEF Next, WorkerStep, ReviewStep, Environment

\* No item is sent more often than its budget between two reviews, in any
\* interleaving of the worker's runs with recovery and re-queueing.
THEOREM RetriesStayBounded == Spec => []RetriesAreBounded
<1>1. BudgetInv => RetriesAreBounded
  BY DEF BudgetInv
<1> QED
  BY <1>1, BudgetInit, BudgetStep, TypeCorrect, PTL DEF Spec

------------------------------------------------------------------------------
(* The ledger: fulfilment is a ledger that may lose a call that was cut    *)
(* off; as long as none is, it books what was given, once.                 *)

\* What a step may do to deliveries and to the books.
Moves == /\ UNCHANGED <<charged, byHand>>
         /\ \A i \in Items : status'[i] = "succeeded" <=> status[i] = "succeeded"
Delivers(i) == /\ charged[i] = 0 /\ i \notin byHand
               /\ charged' = [ charged EXCEPT ![i] = 1 ] /\ UNCHANGED <<status, byHand>>
Books(i) == /\ charged[i] = 1 /\ status' = [ status EXCEPT ![i] = "succeeded" ]
            /\ UNCHANGED <<charged, byHand>>
HandsOver(i) == /\ charged[i] = 0 /\ i \notin byHand /\ byHand' = byHand \cup {i}
                /\ status' = [ status EXCEPT ![i] = "succeeded" ] /\ UNCHANGED charged
LedgerStep == Moves \/ \E i \in Items : Delivers(i) \/ Books(i) \/ HandsOver(i)

\* A call is cut off; somebody decides about a lost item.
Cuts(i) == /\ status[i] = "sending" /\ Lost' = Lost \cup {i}
           /\ UNCHANGED <<charged, byHand, status>>
Finds(i) == /\ i \in Lost /\ Lost' = Lost \ {i}
            /\ \E to : status' = [ status EXCEPT ![i] = to ]
            /\ UNCHANGED <<charged, byHand>>

\* What a step may do when calls may be cut off: what is lost is left alone
\* until it is found.
LossStep ==
  \/ /\ LedgerStep /\ Lost' = Lost
     /\ \A i \in Lost : charged'[i] = charged[i] /\ status'[i] = status[i]
  \/ \E i \in Items : Cuts(i) \/ Finds(i)

\* A purchase is of an item that nobody has, and the answer it gets is booked
\* as a delivery only if it was one: by the provider's word or by the wallet.
LEMMA WorkerLedger ==
  ASSUME TypeOK, LiveCallsAreGuarded, RetriesAreUncharged, HonestInv, QuietWallet, WorkerStep
  PROVE  LedgerStep
<1>0. /\ MoneyItems /\ HandInv /\ CallInv
      /\ status \in [Items -> ItemStatuses] /\ charged \in [Items -> Nat]
      /\ wallet \in Int /\ job.reading \in Int
      /\ wpc \in { "locked", "calling", "answered" } => job.item \in Items
  BY MoneyFacts
<1>1. CASE UNCHANGED <<charged, byHand, status>>
  BY <1>1 DEF LedgerStep, Moves
<1>2. ASSUME NEW i \in job.todo, RefuseInactive(i) PROVE LedgerStep
  BY <1>0, <1>2 DEF RefuseInactive, provider, LedgerStep, Moves, Settleable
<1>3. CASE MarkSending
  BY <1>0, <1>3 DEF MarkSending, provider, LedgerStep, Moves, Dispatchable
<1>4. ASSUME NEW kind \in OutcomeKinds, Purchase(kind) PROVE LedgerStep
  <2>1. CASE kind \in Lands
    <3>1. /\ charged' = [ charged EXCEPT ![job.item] = @ + 1 ]
          /\ wpc = "calling" /\ job.item \in Items /\ UNCHANGED <<status, byHand>>
      BY <1>0, <1>4, <2>1 DEF Purchase, rows
    <3>2. charged[job.item] = 0 /\ job.item \notin byHand
      BY <1>0, <3>1 DEF HandInv, CallInv, InCall, MoneyItems
    <3>3. charged' = [ charged EXCEPT ![job.item] = 1 ]
      BY <1>0, <3>1, <3>2
    <3> QED BY <3>1, <3>2, <3>3 DEF LedgerStep, Delivers
  <2>2. CASE kind \notin Lands
    BY <1>1, <1>4, <2>2 DEF Purchase, rows
  <2> QED BY <2>1, <2>2
<1>5. CASE Settle
  <2>1. /\ wpc = "answered" /\ job.item \in Items /\ status[job.item] = "sending"
        /\ status' = [ status EXCEPT ![job.item] = OutcomeStatus(job.item) ]
        /\ UNCHANGED <<charged, byHand>>
    BY <1>0, <1>5 DEF Settle, CallInv, InCall, Settleable, provider
  <2>2. CASE OutcomeStatus(job.item) = "succeeded"
    <3>1. charged[job.item] = 1
      <4>1. CASE job.outcome \in Lands
        BY <2>1, <4>1 DEF HonestInv
      <4>2. CASE job.outcome \notin Lands
        <5>1. wallet = job.reading
          BY <2>1, <4>2 DEF HonestInv
        <5>2. Verdict(job.item, job.reading) = "charged"
          BY <2>2, <4>2 DEF OutcomeStatus, Lands
        <5>3. Cost[job.item] \in Nat \ {0}
          BY <2>1, PriceAssumption
        <5> QED BY <1>0, <5>1, <5>2, <5>3
                DEF Verdict, ResolveAmbiguous, AbsVal, ToleranceFor, ToleranceFloor
      <4> QED BY <4>1, <4>2
    <3> QED BY <2>1, <2>2, <3>1 DEF LedgerStep, Books
  <2>3. CASE OutcomeStatus(job.item) # "succeeded"
    BY <1>0, <2>1, <2>3 DEF LedgerStep, Moves
  <2> QED BY <2>2, <2>3
<1> QED
  BY <1>1, <1>2, <1>3, <1>4, <1>5 DEF WorkerStep, Claim, HoldLoad, HoldWrite, LoadOrder,
     PreflightShort, PreflightPasses, TakeLock, RunOver, FinishLoad, FinishWrite, rows,
     provider

\* The sweep settles pending items, which were all delivered, and lost ones.
LEMMA SweepLoses ==
  ASSUME TypeOK, LiveCallsAreGuarded, HonestInv, SweepStep
  PROVE  LossStep
<1>0. /\ LockInv /\ BatchInv /\ CallInv /\ status \in [Items -> ItemStatuses]
      /\ batch \subseteq Snapshots
  BY DEF LiveCallsAreGuarded, TypeOK, RowsOK, SweepOK
<1>1. UNCHANGED <<charged, byHand, wpc, job>>
  BY DEF SweepStep, PollQuery, RecoverQuery, TryLock, RecoverDone,
     PollCompleted, PollEscalates, SkipRow, RecoverItem, Escalate,
     RefreshLoad, RefreshWrite, provider, worker
<1>2. ASSUME NEW r \in batch, PollCompleted(r) \/ PollEscalates(r) \/ RecoverItem(r)
      PROVE  LossStep
  <2>1. PICK to \in { "succeeded", "failed", "unknown" },
             then \in { "escalate", "refresh" } : SettleRow(r, to, then)
    BY <1>2 DEF PollCompleted, PollEscalates, RecoverItem
  <2>2. r.item \in Items
    BY <1>0 DEF Snapshots
  <2>3. CASE status[r.item] = "provider_pending"
    <3>1. status' = [ status EXCEPT ![r.item] = to ]
      BY <2>1, <2>3 DEF SettleRow, Settleable
    <3>2. charged[r.item] = 1
      BY <2>2, <2>3 DEF HonestInv
    <3>3. LedgerStep
      <4>1. CASE to = "succeeded"
        BY <1>1, <2>2, <3>1, <3>2, <4>1 DEF LedgerStep, Books
      <4>2. CASE to # "succeeded"
        BY <1>0, <1>1, <2>3, <3>1, <4>2 DEF LedgerStep, Moves
      <4> QED BY <4>1, <4>2
    <3>4. \A i \in Items : (status'[i] = "sending") <=> (status[i] = "sending")
      BY <1>0, <2>2, <2>3, <3>1
    <3>5. \A i \in Items : status[i] = "sending" => status'[i] = status[i]
      BY <1>0, <2>2, <2>3, <3>1
    <3> QED BY <1>1, <3>3, <3>4, <3>5 DEF LossStep, Lost
  <2>4. CASE status[r.item] = "sending"
    <3>1. status' = [ status EXCEPT ![r.item] = to ]
      BY <2>1, <2>4 DEF SettleRow, Settleable
    <3>2. r.item \in Lost
      <4>1. spc = "recover" \/ spc = "poll"
        BY <1>2 DEF PollCompleted, PollEscalates, RecoverItem
      <4>2. spc # "poll"
        BY <1>0, <2>4 DEF BatchInv, Polling
      <4>3. ~(wpc \in { "calling", "answered" })
        BY <1>0, <4>1, <4>2 DEF LockInv, Recovering
      <4> QED BY <2>2, <2>4, <4>3 DEF Lost
    <3>3. Lost' = Lost \ {r.item}
      <4>1. ASSUME NEW i \in Items
            PROVE  (status'[i] = "sending") <=> (status[i] = "sending" /\ i # r.item)
        BY <1>0, <2>1, <2>2, <3>1
      <4> QED BY <1>1, <4>1 DEF Lost
    <3> QED BY <1>1, <2>2, <3>1, <3>2, <3>3 DEF LossStep, Finds
  <2>5. CASE status[r.item] \notin Settleable
    BY <1>1, <2>1, <2>5 DEF SettleRow, LossStep, LedgerStep, Moves, Lost
  <2> QED BY <2>3, <2>4, <2>5 DEF Settleable
<1>3. CASE UNCHANGED status
  BY <1>1, <1>3 DEF LossStep, LedgerStep, Moves, Lost
<1> QED
  BY <1>2, <1>3 DEF SweepStep, PollQuery, RecoverQuery, TryLock, RecoverDone, SkipRow,
     Escalate, RefreshLoad, RefreshWrite, rows

\* The worker loses nothing and leaves what is lost alone.
LEMMA WorkerKeepsLost ==
  ASSUME TypeOK, LiveCallsAreGuarded, WorkerStep
  PROVE  /\ Lost' = Lost
         /\ \A i \in Lost : charged'[i] = charged[i] /\ status'[i] = status[i]
<1>0. /\ CallInv /\ TodoInv /\ status \in [Items -> ItemStatuses] /\ charged \in [Items -> Nat]
      /\ wpc \in { "locked", "calling", "answered" } => job.item \in Items
      /\ job \in Jobs
  BY DEF LiveCallsAreGuarded, TypeOK, RowsOK, WorkerOK, ProviderOK
<1>1. CASE UNCHANGED <<status, charged>> /\ ~InCall /\ ~InCall'
  BY <1>1 DEF Lost, InCall
<1>2. ASSUME NEW i \in job.todo, RefuseInactive(i) PROVE UNCHANGED <<status, charged>> /\ ~InCall /\ ~InCall'
  <2>1. status[i] \notin Settleable
    BY <1>0, <1>2 DEF RefuseInactive, IsNext, TodoInv
  <2> QED BY <1>2, <2>1 DEF RefuseInactive, IsNext, WorkerIdle, InCall, provider
<1>3. CASE MarkSending
  <2>1. CASE status[job.item] \in Dispatchable
    <3>1. /\ status' = [ status EXCEPT ![job.item] = "sending" ] /\ UNCHANGED <<charged, job>>
          /\ wpc = "locked" /\ wpc' = "calling"
      BY <1>3, <2>1 DEF MarkSending, provider
    <3>2. job.item \notin Lost
      BY <2>1 DEF Lost, Dispatchable
    <3> QED BY <1>0, <3>1, <3>2 DEF Lost
  <2>2. CASE status[job.item] \notin Dispatchable
    BY <1>1, <1>3, <2>2 DEF MarkSending, WorkerIdle, InCall, provider
  <2> QED BY <2>1, <2>2
<1>4. ASSUME NEW kind \in OutcomeKinds, Purchase(kind)
      PROVE  /\ Lost' = Lost
             /\ \A i \in Lost : charged'[i] = charged[i] /\ status'[i] = status[i]
  <2>1. /\ wpc = "calling" /\ wpc' = "answered" /\ UNCHANGED status
        /\ job' = [ job EXCEPT !.outcome = kind ]
        /\ \/ charged' = charged
           \/ charged' = [ charged EXCEPT ![job.item] = @ + 1 ]
    BY <1>4 DEF Purchase, rows
  <2>2. job'.item = job.item
    BY <1>0, <2>1 DEF Jobs
  <2>3. job.item \notin Lost
    BY <2>1 DEF Lost
  <2> QED BY <1>0, <2>1, <2>2, <2>3 DEF Lost
<1>5. CASE Settle
  <2>1. /\ status' = [ status EXCEPT ![job.item] = OutcomeStatus(job.item) ]
        /\ wpc = "answered" /\ wpc' = "next" /\ UNCHANGED charged /\ job.item \in Items
    BY <1>0, <1>5 DEF Settle, CallInv, InCall, Settleable, provider
  <2>2. OutcomeStatus(job.item) # "sending"
    BY DEF OutcomeStatus
  <2>3. job.item \notin Lost
    BY <2>1 DEF Lost
  <2>4. ASSUME NEW i \in Items PROVE i \in Lost' <=> i \in Lost
    BY <1>0, <2>1, <2>2, <2>4 DEF Lost
  <2> QED BY <1>0, <2>1, <2>3, <2>4 DEF Lost
<1> QED
  BY <1>1, <1>2, <1>3, <1>4, <1>5 DEF WorkerStep, Claim, HoldLoad, HoldWrite, LoadOrder,
     PreflightShort, PreflightPasses, IsNext, TakeLock, RunOver, FinishLoad, FinishWrite,
     WorkerIdle, InCall, rows, provider

\* A review books one item, which was delivered or is handed over with it, or
\* puts items back that are not booked.
LEMMA ReviewLedger ==
  ASSUME TypeOK, LiveCallsAreGuarded, RetriesAreUncharged, HonestInv, ReviewStep
  PROVE  LedgerStep
<1>0. /\ MoneyItems /\ PlanInv /\ DOMAIN plan.was \subseteq Items
      /\ status \in [Items -> ItemStatuses] /\ plan.kind \in PlanKinds
  BY MoneyFacts DEF TypeOK, PlanOK, Plans
<1>1. CASE UNCHANGED <<charged, byHand, status>>
  BY <1>1 DEF LedgerStep, Moves
<1>2. CASE ApplyReview /\ Unmoved
  <2>1. /\ UNCHANGED charged
        /\ status' = [ i \in Items |->
             IF i \notin DOMAIN plan.was THEN status[i]
             ELSE IF plan.kind = "requeue" THEN "queued" ELSE "succeeded" ]
        /\ byHand' = IF plan.kind = "by_hand" THEN byHand \cup DOMAIN plan.was ELSE byHand
        /\ \A i \in DOMAIN plan.was : status[i] = plan.was[i]
    BY <1>2 DEF ApplyReview, Unmoved, provider
  <2>2. \A i \in DOMAIN plan.was : status[i] # "succeeded"
    BY <2>1, <1>0 DEF PlanInv
  <2>3. CASE plan.kind = "requeue" \/ DOMAIN plan.was = {}
    <3>1. byHand' = byHand
      BY <2>1, <2>3
    <3> QED BY <2>1, <2>2, <2>3, <3>1 DEF LedgerStep, Moves
  <2>4. ASSUME NEW i \in Items, DOMAIN plan.was = {i}, plan.kind \in { "delivered", "by_hand" }
        PROVE  LedgerStep
    <3>1. status' = [ status EXCEPT ![i] = "succeeded" ]
      BY <1>0, <2>1, <2>4
    <3>2. CASE plan.kind = "by_hand"
      <4>1. charged[i] = 0 /\ i \notin byHand
        BY <1>0, <2>1, <2>4, <3>2 DEF PlanInv, MoneyItems
      <4> QED BY <2>1, <2>4, <3>1, <3>2, <4>1 DEF LedgerStep, HandsOver
    <3>3. CASE plan.kind = "delivered"
      <4>1. charged[i] = 1
        BY <2>4, <3>3 DEF HonestInv
      <4> QED BY <2>1, <3>1, <3>3, <4>1 DEF LedgerStep, Books
    <3> QED BY <2>4, <3>2, <3>3
  <2> QED BY <1>0, <2>3, <2>4 DEF HonestInv, PlanKinds
<1>3. CASE ApplyReview /\ ~Unmoved
  BY <1>1, <1>3 DEF ApplyReview, provider
<1> QED
  BY <1>1, <1>2, <1>3 DEF ReviewStep, PlanDelivered, PlanNotDelivered,
     PlanDeliveredManually, PlanResume, PlanRefund, PlanRefundDone, Propose, rows, provider

\* Off a quiet wallet's calls and the reviews, nothing is given and nothing is
\* booked.
LEMMA EnvironmentLedger ==
  ASSUME RetriesAreUncharged, Environment
  PROVE  Moves
<1>1. ~ (\E i \in Items : LandLate(i))
  BY DEF RetriesAreUncharged, MoneyInv, LandLate
<1> QED BY <1>1 DEF Environment, ConfirmPayment, GrowOld, Withdraw, ToggleEmergency, TopUp,
           WorkerThrows, SweepThrows, Crash, rows, provider, Moves

\* A review is never about an item that is out.
LEMMA ReviewKeepsLost ==
  ASSUME TypeOK, LiveCallsAreGuarded, ReviewStep
  PROVE  /\ Lost' = Lost
         /\ \A i \in Lost : charged'[i] = charged[i] /\ status'[i] = status[i]
<1>0. /\ PlanInv /\ status \in [Items -> ItemStatuses]
  BY DEF LiveCallsAreGuarded, TypeOK, RowsOK
<1>1. UNCHANGED <<charged, wpc, job>>
  BY DEF ReviewStep, PlanDelivered, PlanNotDelivered, PlanDeliveredManually, PlanResume,
     PlanRefund, PlanRefundDone, Propose, ApplyReview, provider, worker
<1>2. CASE UNCHANGED status
  BY <1>1, <1>2 DEF Lost
<1>3. CASE ApplyReview /\ Unmoved
  <2>1. \A i \in Items : \/ status'[i] = status[i]
                         \/ status[i] # "sending" /\ status'[i] \in { "queued", "succeeded" }
    BY <1>0, <1>3 DEF ApplyReview, Unmoved, PlanInv
  <2> QED BY <1>1, <2>1 DEF Lost
<1> QED
  BY <1>2, <1>3 DEF ReviewStep, PlanDelivered, PlanNotDelivered, PlanDeliveredManually,
     PlanResume, PlanRefund, PlanRefundDone, Propose, ApplyReview, rows

\* A crash or an exception cuts off the call that is out, if there is one.
LEMMA EnvironmentLoses ==
  ASSUME TypeOK, LiveCallsAreGuarded, RetriesAreUncharged, Environment
  PROVE  LossStep
<1>0. /\ CallInv
      /\ wpc \in { "locked", "calling", "answered" } => job.item \in Items
  BY DEF LiveCallsAreGuarded, TypeOK, WorkerOK
<1>1. Moves /\ UNCHANGED status
  BY EnvironmentLedger DEF Environment, ConfirmPayment, GrowOld, LandLate, Withdraw,
     ToggleEmergency, TopUp, WorkerThrows, SweepThrows, Crash, rows
<1>2. CASE UNCHANGED worker
  BY <1>1, <1>2 DEF LossStep, LedgerStep, Moves, Lost, worker
<1>3. CASE WorkerThrows \/ Crash
  <2>1. wpc' = "idle"
    BY <1>3 DEF WorkerThrows, WorkerIdle, Crash
  <2>2. CASE InCall
    <3>1. status[job.item] = "sending" /\ job.item \in Items
      BY <1>0, <2>2 DEF CallInv, InCall
    <3>2. Lost' = Lost \cup {job.item}
      BY <1>1, <2>1, <2>2, <3>1 DEF Lost, InCall
    <3> QED BY <1>1, <3>1, <3>2 DEF LossStep, Cuts, Moves
  <2>3. CASE ~InCall
    BY <1>1, <2>1, <2>3 DEF LossStep, LedgerStep, Moves, Lost, InCall
  <2> QED BY <2>2, <2>3
<1> QED
  BY <1>2, <1>3 DEF Environment, ConfirmPayment, GrowOld, LandLate, Withdraw,
     ToggleEmergency, TopUp, SweepThrows

\* Every step is a step of the ledger that may lose a call, or none.
LEMMA AnyLoss ==
  ASSUME TypeOK, LiveCallsAreGuarded, RetriesAreUncharged, HonestInv, QuietWallet, [Next]_vars
  PROVE  LossStep
<1>1. CASE UNCHANGED vars
  BY <1>1 DEF vars, rows, provider, worker, LossStep, LedgerStep, Moves, Lost
<1>2. CASE WorkerStep
  BY <1>2, WorkerLedger, WorkerKeepsLost DEF LossStep
<1>3. CASE ReviewStep
  BY <1>3, ReviewLedger, ReviewKeepsLost DEF LossStep
<1> QED BY <1>1, <1>2, <1>3, SweepLoses, EnvironmentLoses DEF Next

\* As long as no send is cut off there is nothing to find.
LEMMA AnyLedger ==
  ASSUME TypeOK, LiveCallsAreGuarded, RetriesAreUncharged, HonestInv, CallsEnd, QuietWallet,
         [Next]_vars
  PROVE  LedgerStep
<1>1. Lost = {}
  BY DEF CallsEnd, Lost, InCall
<1>2. \A i \in Items : Cuts(i) => Moves
  BY DEF Cuts, Moves
<1> QED BY <1>1, <1>2, AnyLoss DEF LossStep, Finds, LedgerStep

LEMMA BookedInit == Init => BookedInv
BY DEF Init, BookedInv, HonestInv, DeliveredIsReal, NoPlan

\* What a reviewer is about to book.
PlanBooked ==
  /\ plan.kind = "delivered" => \A i \in DOMAIN plan.was : charged[i] = 1
  /\ plan.kind \in { "delivered", "by_hand" } => \E i \in Items : DOMAIN plan.was = {i}
  /\ plan.kind \in { "none", "refund", "refund_done" } => DOMAIN plan.was = {}

LEMMA PlanBookedHolds == HonestInv => PlanBooked
BY DEF HonestInv, PlanBooked

\* What is about to be booked was given, unless it is lost.
LEMMA HonestStep ==
  ASSUME TypeOK, LiveCallsAreGuarded, RetriesAreUncharged, HonestInv, QuietWallet, [Next]_vars
  PROVE  HonestInv'
<1>0. /\ MoneyItems /\ HandInv /\ CallInv /\ PlanInv /\ late = {}
      /\ status \in [Items -> ItemStatuses] /\ charged \in [Items -> Nat]
      /\ byHand \subseteq Items /\ job \in Jobs /\ wallet \in Int
      /\ wpc \in { "locked", "calling", "answered" } => job.item \in Items
  BY MoneyFacts
<1>1. LossStep
  BY AnyLoss
<1>2. \A i \in Items : charged[i] = 1 => charged'[i] = 1
  BY <1>0, <1>1 DEF LossStep, LedgerStep, Moves, Delivers, Books, HandsOver, Cuts, Finds
<1>4. ASSUME NEW i \in Items, status'[i] = "provider_pending" PROVE charged'[i] = 1
  <2>1. CASE status[i] = "provider_pending"
    BY <1>2, <2>1 DEF HonestInv
  <2>2. CASE status[i] # "provider_pending"
    <3>1. Settle /\ wpc = "answered" /\ job.item = i /\ job.outcome = "pending"
      <4>1. CASE WorkerStep
        BY <1>0, <1>4, <2>2, <4>1
           DEF WorkerStep, Claim, HoldLoad, HoldWrite, LoadOrder, PreflightShort,
               PreflightPasses, RefuseInactive, TakeLock, MarkSending, Purchase, Settle,
               RunOver, FinishLoad, FinishWrite, rows, OutcomeStatus
      <4>2. CASE SweepStep
        <5>1. ASSUME NEW r \in batch, PollCompleted(r) \/ PollEscalates(r) \/ RecoverItem(r)
              PROVE  FALSE
          <6>1. PICK to \in { "succeeded", "failed", "unknown" },
                     then \in { "escalate", "refresh" } : SettleRow(r, to, then)
            BY <5>1 DEF PollCompleted, PollEscalates, RecoverItem
          <6> QED BY <1>0, <1>4, <2>2, <6>1 DEF SettleRow
        <5> QED BY <1>4, <2>2, <4>2, <5>1
                DEF SweepStep, PollQuery, RecoverQuery, TryLock, RecoverDone, SkipRow,
                    Escalate, RefreshLoad, RefreshWrite, rows
      <4>3. CASE ReviewStep
        BY <1>0, <1>4, <2>2, <4>3
           DEF ReviewStep, PlanDelivered, PlanNotDelivered, PlanDeliveredManually,
               PlanResume, PlanRefund, PlanRefundDone, Propose, ApplyReview, rows
      <4>4. CASE Environment
        BY <1>4, <2>2, <4>4 DEF Environment, ConfirmPayment, GrowOld, LandLate, Withdraw,
           ToggleEmergency, TopUp, WorkerThrows, SweepThrows, Crash, rows
      <4>5. CASE UNCHANGED vars
        BY <1>4, <2>2, <4>5 DEF vars, rows
      <4> QED BY <4>1, <4>2, <4>3, <4>4, <4>5 DEF Next
    <3>2. charged[i] = 1
      BY <3>1 DEF HonestInv, Lands
    <3> QED BY <1>2, <3>2
  <2> QED BY <2>1, <2>2
<1>5. ASSUME wpc' = "answered"
      PROVE  IF job'.outcome \in Lands THEN charged'[job'.item] = 1 ELSE wallet' = job'.reading
  <2>1. CASE \E kind \in OutcomeKinds : Purchase(kind)
    <3>1. PICK kind \in OutcomeKinds : Purchase(kind)
      BY <2>1
    <3>2. /\ job' = [ job EXCEPT !.outcome = kind ] /\ wpc = "calling" /\ job.item \in Items
          /\ IF kind \in Lands THEN charged' = [ charged EXCEPT ![job.item] = @ + 1 ]
             ELSE wallet' = wallet
      BY <1>0, <3>1 DEF Purchase
    <3>3. job'.item = job.item /\ job'.outcome = kind /\ job'.reading = job.reading
      BY <1>0, <3>2 DEF Jobs
    <3>4. job.reading = wallet /\ charged[job.item] = 0
      BY <1>0, <3>2 DEF HandInv
    <3>5. CASE kind \in Lands
      <4>1. charged'[job.item] = 1
        BY <1>0, <3>2, <3>4, <3>5
      <4> QED BY <3>3, <3>5, <4>1
    <3> QED BY <3>2, <3>3, <3>4, <3>5
  <2>2. CASE ~ \E kind \in OutcomeKinds : Purchase(kind)
    <3>1. UNCHANGED <<wpc, job, wallet>>
      <4>1. CASE Environment
        <5>1. ~ \E amount \in TopUps : TopUp(amount)
          BY DEF QuietWallet
        <5>2. ~ \E i \in Items : LandLate(i)
          BY <1>0 DEF LandLate
        <5> QED BY <1>5, <4>1, <5>1, <5>2
                DEF Environment, ConfirmPayment, GrowOld, Withdraw, ToggleEmergency,
                    WorkerThrows, WorkerIdle, SweepThrows, Crash, worker, provider
      <4>2. CASE WorkerStep
        BY <1>5, <2>2, <4>2 DEF WorkerStep, Claim, HoldLoad, HoldWrite, LoadOrder,
           PreflightShort, PreflightPasses, RefuseInactive, TakeLock, MarkSending, Settle,
           RunOver, FinishLoad, FinishWrite, WorkerIdle
      <4>3. CASE SweepStep
        BY <4>3 DEF SweepStep, PollQuery, RecoverQuery, TryLock, RecoverDone,
           PollCompleted, PollEscalates, SkipRow, RecoverItem, Escalate,
           RefreshLoad, RefreshWrite, worker, provider
      <4>4. CASE ReviewStep
        BY <4>4 DEF ReviewStep, PlanDelivered, PlanNotDelivered, PlanDeliveredManually,
           PlanResume, PlanRefund, PlanRefundDone, Propose, ApplyReview, worker, provider
      <4>5. CASE UNCHANGED vars
        BY <4>5 DEF vars, worker, provider
      <4> QED BY <4>1, <4>2, <4>3, <4>4, <4>5 DEF Next
    <3>2. job.outcome \in Lands => charged'[job.item] = 1
      BY <1>0, <1>2, <1>5, <3>1 DEF HonestInv
    <3> QED BY <1>5, <3>1, <3>2 DEF HonestInv
  <2> QED BY <2>1, <2>2
<1>6. PlanBooked'
  <2>1. CASE UNCHANGED plan
    <3>1. DOMAIN plan.was \subseteq Items
      BY MoneyFacts
    <3> QED BY <1>2, <2>1, <3>1, PlanBookedHolds DEF PlanBooked
  <2>2. CASE ApplyReview
    BY <2>2 DEF ApplyReview, NoPlan, PlanBooked
  <2>3. ASSUME NEW kind, NEW o, NEW next, NEW S \in SUBSET Items, Propose(kind, o, next, S),
               \/ kind = "requeue"
               \/ kind \in { "delivered", "by_hand" } /\ \E i \in Items : S = {i}
               \/ kind \in { "refund", "refund_done" } /\ S = {},
               kind = "delivered" => \A i \in S : charged[i] = 1
        PROVE  PlanBooked'
    <3>1. plan'.kind = kind /\ DOMAIN plan'.was = S /\ UNCHANGED charged
      BY <2>3 DEF Propose, provider
    <3> QED BY <2>3, <3>1 DEF PlanBooked
  <2>4. ASSUME NEW i \in Items,
               PlanDelivered(i) \/ PlanNotDelivered(i) \/ PlanDeliveredManually(i)
        PROVE  PlanBooked'
    <3>1. charged[i] > 0 => charged[i] = 1
      BY <1>0 DEF MoneyItems
    <3> QED BY <2>3, <2>4, <3>1 DEF PlanDelivered, PlanNotDelivered, PlanDeliveredManually
  <2>5. ASSUME NEW o \in Orders, PlanResume(o) \/ PlanRefund(o) \/ PlanRefundDone(o)
        PROVE  PlanBooked'
    <3>1. { i \in ItemsOf(o) : status[i] \in Dispatchable } \subseteq Items
      BY DEF ItemsOf
    <3> QED BY <2>3, <2>5, <3>1 DEF PlanResume, PlanRefund, PlanRefundDone
  <2> QED
    BY <2>1, <2>2, <2>4, <2>5 DEF Next, ReviewStep, WorkerStep, Claim, HoldLoad, HoldWrite,
       LoadOrder, PreflightShort, PreflightPasses, RefuseInactive, TakeLock, MarkSending,
       Purchase, Settle, RunOver, FinishLoad, FinishWrite, SweepStep, PollQuery,
       RecoverQuery, TryLock, RecoverDone, PollCompleted, PollEscalates, SkipRow,
       RecoverItem, Escalate, RefreshLoad, RefreshWrite, Environment, ConfirmPayment,
       GrowOld, LandLate, Withdraw, ToggleEmergency, TopUp, WorkerThrows, SweepThrows,
       Crash, vars
<1> QED BY <1>4, <1>5, <1>6 DEF HonestInv, PlanBooked

\* And what is booked was given.
LEMMA BookedStep ==
  ASSUME TypeOK, LiveCallsAreGuarded, RetriesAreUncharged, BookedInv, CallsEnd, QuietWallet,
         [Next]_vars
  PROVE  BookedInv'
<1>0. /\ MoneyItems /\ status \in [Items -> ItemStatuses] /\ charged \in [Items -> Nat]
      /\ byHand \subseteq Items /\ HonestInv
  BY MoneyFacts DEF BookedInv
<1>1. LedgerStep
  BY <1>0, AnyLedger
<1>2. \A i \in Items : charged'[i] > 0 \/ i \in byHand' \/ ~(charged[i] > 0 \/ i \in byHand)
  BY <1>0, <1>1 DEF LedgerStep, Moves, Delivers, Books, HandsOver, MoneyItems
<1>3. DeliveredIsReal'
  <2> SUFFICES ASSUME NEW i \in Items, status'[i] = "succeeded"
               PROVE  charged'[i] > 0 \/ i \in byHand'
    BY DEF DeliveredIsReal
  <2>1. CASE status[i] = "succeeded"
    BY <1>2, <2>1 DEF BookedInv, DeliveredIsReal
  <2>2. CASE status[i] # "succeeded"
    BY <1>0, <1>1, <2>2 DEF LedgerStep, Moves, Delivers, Books, HandsOver
  <2> QED BY <2>1, <2>2
<1> QED BY <1>0, <1>3, HonestStep DEF BookedInv

\* What the three moves are to the ledger.
LEMMA LedgerMoves ==
  ASSUME TypeOK, RetriesAreUncharged, NEW i \in Items
  PROVE  /\ Delivers(i) => /\ Given[i] = 0 /\ Given' = [ Given EXCEPT ![i] = 1 ]
                           /\ Booked' = Booked
         /\ Books(i) => Given[i] = 1 /\ Given' = Given /\ Booked' = Booked \cup {i}
         /\ HandsOver(i) => /\ Given[i] = 0 /\ Given' = [ Given EXCEPT ![i] = 1 ]
                            /\ Booked' = Booked \cup {i}
<1>0. /\ MoneyItems /\ status \in [Items -> ItemStatuses] /\ charged \in [Items -> Nat]
      /\ byHand \subseteq Items
  BY MoneyParts DEF RetriesAreUncharged, MoneyInv, MoneyItems, TypeOK, RowsOK, ProviderOK
<1>1. ASSUME Delivers(i)
      PROVE  Given[i] = 0 /\ Given' = [ Given EXCEPT ![i] = 1 ] /\ Booked' = Booked
  <2>1. Given[i] = 0 /\ Booked' = Booked
    BY <1>1 DEF Delivers, Given, Booked
  <2>2. ASSUME NEW j \in Items PROVE Given'[j] = IF j = i THEN 1 ELSE Given[j]
    BY <1>0, <1>1 DEF Delivers, Given
  <2>3. Given' = [ Given EXCEPT ![i] = 1 ]
    BY <2>2 DEF Given
  <2> QED BY <2>1, <2>3
<1>2. ASSUME Books(i) PROVE Given[i] = 1 /\ Given' = Given /\ Booked' = Booked \cup {i}
  <2>1. Given[i] = 1
    BY <1>0, <1>2 DEF Books, Given, MoneyItems
  <2>2. Given' = Given
    BY <1>2 DEF Books, Given
  <2>3. Booked' = Booked \cup {i}
    BY <1>0, <1>2 DEF Books, Booked
  <2> QED BY <2>1, <2>2, <2>3
<1>3. ASSUME HandsOver(i)
      PROVE  /\ Given[i] = 0 /\ Given' = [ Given EXCEPT ![i] = 1 ]
             /\ Booked' = Booked \cup {i}
  <2>1. Given[i] = 0
    BY <1>3 DEF HandsOver, Given
  <2>2. ASSUME NEW j \in Items PROVE Given'[j] = IF j = i THEN 1 ELSE Given[j]
    BY <1>0, <1>3 DEF HandsOver, Given
  <2>3. Given' = [ Given EXCEPT ![i] = 1 ]
    BY <2>2 DEF Given
  <2>4. Booked' = Booked \cup {i}
    BY <1>0, <1>3 DEF HandsOver, Booked
  <2> QED BY <2>1, <2>3, <2>4
<1> QED BY <1>1, <1>2, <1>3

\* Steps of fulfilment are steps of the ledger.
LEMMA LedgerStepRefines ==
  ASSUME TypeOK, RetriesAreUncharged, LedgerStep
  PROVE  [ItemLedger!Next]_<<Given, Booked>>
<1>1. CASE Moves
  BY <1>1 DEF Moves, Given, Booked
<1>2. ASSUME NEW i \in Items, Delivers(i) \/ Books(i) \/ HandsOver(i) PROVE ItemLedger!Next
  BY <1>2, LedgerMoves
     DEF ItemLedger!Next, ItemLedger!Give, ItemLedger!Book, ItemLedger!GiveAndBook
<1> QED BY <1>1, <1>2 DEF LedgerStep

\* With calls cut off they are steps of the ledger that may lose some.
LEMMA LossStepRefines ==
  ASSUME TypeOK, RetriesAreUncharged, LossStep
  PROVE  [CrashLedger!Next]_<<Given, Booked, Lost>>
<1>0. status \in [Items -> ItemStatuses]
  BY DEF TypeOK, RowsOK
<1>1. CASE Moves /\ Lost' = Lost
  BY <1>1 DEF Moves, Given, Booked
<1>2. ASSUME NEW i \in Items, Delivers(i) \/ Books(i) \/ HandsOver(i), Lost' = Lost,
             \A j \in Lost : charged'[j] = charged[j] /\ status'[j] = status[j]
      PROVE  CrashLedger!Known(i)
  <2>1. i \notin Lost
    <3>1. charged \in [Items -> Nat]
      BY DEF TypeOK, ProviderOK
    <3> QED BY <1>0, <1>2, <3>1 DEF Delivers, Books, HandsOver, Lost
  <2> QED BY <1>2, <2>1, LedgerMoves
          DEF CrashLedger!Known, CrashLedger!Unbroken!Give, CrashLedger!Unbroken!Book,
              CrashLedger!Unbroken!GiveAndBook
<1>3. ASSUME NEW i \in Items, Cuts(i) PROVE CrashLedger!Lose(i)
  <2>1. i \notin Booked /\ Given' = Given /\ Booked' = Booked
    BY <1>3 DEF Cuts, Given, Booked
  <2> QED BY <1>3, <2>1 DEF Cuts, CrashLedger!Lose
<1>4. ASSUME NEW i \in Items, Finds(i) PROVE CrashLedger!Find(i)
  <2>1. PICK to : status' = [ status EXCEPT ![i] = to ]
    BY <1>4 DEF Finds
  <2>2. Given' = Given
    BY <1>4 DEF Finds, Given
  <2>3. status[i] = "sending"
    BY <1>4 DEF Finds, Lost
  <2>4. CASE to = "succeeded"
    <3>1. Booked' = Booked \cup {i}
      BY <1>0, <2>1, <2>4 DEF Booked
    <3> QED BY <1>4, <2>2, <3>1 DEF Finds, CrashLedger!Find
  <2>5. CASE to # "succeeded"
    <3>1. Booked' = Booked
      BY <1>0, <2>1, <2>3, <2>5 DEF Booked
    <3> QED BY <1>4, <2>2, <3>1 DEF Finds, CrashLedger!Find
  <2> QED BY <2>4, <2>5
<1> QED BY <1>1, <1>2, <1>3, <1>4 DEF LossStep, LedgerStep, CrashLedger!Next

LEMMA LossyInit == Init => CrashLedger!Init
BY DEF Init, CrashLedger!Init, CrashLedger!Unbroken!Init, Given, Booked, Lost

\* Whatever crashes and throws: no item is given twice, what was not lost in
\* a call is booked only when it was given, what is lost is not sent again nor
\* handed over before it was found, and what is booked stays booked.
THEOREM LedgerIsKeptThroughCrashes ==
  ASSUME QuietWallet
  PROVE  Spec => ImplementsLossyLedger
<1>1. TypeOK /\ LiveCallsAreGuarded /\ RetriesAreUncharged /\ HonestInv
        /\ [Next]_vars => HonestInv' /\ [CrashLedger!Next]_<<Given, Booked, Lost>>
  <2> SUFFICES ASSUME TypeOK, LiveCallsAreGuarded, RetriesAreUncharged, HonestInv, [Next]_vars
               PROVE  HonestInv' /\ [CrashLedger!Next]_<<Given, Booked, Lost>>
    OBVIOUS
  <2>1. HonestInv'
    BY HonestStep
  <2>2. LossStep
    BY AnyLoss
  <2>3. [CrashLedger!Next]_<<Given, Booked, Lost>>
    BY <2>2, LossStepRefines
  <2> QED BY <2>1, <2>3
<1>2. Init => HonestInv
  BY BookedInit DEF BookedInv
<1> QED
  BY <1>1, <1>2, LossyInit, TypeCorrect, LiveCallsGuarded, RetriesUncharged, PTL
     DEF Spec, ImplementsLossyLedger, CrashLedger!Spec

LEMMA LedgerInit == Init => ItemLedger!Init
BY DEF Init, ItemLedger!Init, Given, Booked

\* Fulfilment implements the ledger: an item is given at most once and booked
\* only after that, and what is booked stays booked, whatever the answers, the
\* crashes, the exceptions and the reviews, as long as no send is cut off
\* before it is settled.
THEOREM LedgerIsKept ==
  ASSUME QuietWallet
  PROVE  Spec /\ []CallsEnd => ImplementsLedger
<1>1. TypeOK /\ LiveCallsAreGuarded /\ RetriesAreUncharged /\ BookedInv /\ CallsEnd
        /\ [Next]_vars => BookedInv' /\ [ItemLedger!Next]_<<Given, Booked>>
  <2> SUFFICES ASSUME TypeOK, LiveCallsAreGuarded, RetriesAreUncharged, BookedInv, CallsEnd,
                      [Next]_vars
               PROVE  BookedInv' /\ [ItemLedger!Next]_<<Given, Booked>>
    OBVIOUS
  <2>1. BookedInv'
    BY BookedStep
  <2>2. LedgerStep
    BY AnyLedger DEF BookedInv
  <2>3. [ItemLedger!Next]_<<Given, Booked>>
    BY <2>2, LedgerStepRefines
  <2> QED BY <2>1, <2>3
<1> QED
  BY <1>1, BookedInit, LedgerInit, TypeCorrect, LiveCallsGuarded, RetriesUncharged, PTL
     DEF Spec, ImplementsLedger, ItemLedger!Spec

\* Without crashes and exceptions the worker settles what it sends: the
\* 'sending' of an item is the call it has out.
LEMMA CallsEndStep ==
  ASSUME MaxCrashes = 0, MaxThrows = 0, TypeOK, LiveCallsAreGuarded, CallsEnd, [Next]_vars
  PROVE  CallsEnd'
<1>0. /\ CallInv /\ PlanInv /\ status \in [Items -> ItemStatuses]
      /\ wpc \in { "locked", "calling", "answered" } => job.item \in Items
      /\ job \in Jobs /\ used \in [ crash : Nat, throw : Nat, topup : Nat, review : Nat,
                                    toggle : Nat ]
  BY DEF LiveCallsAreGuarded, TypeOK, RowsOK, WorkerOK, UsedOK
<1>1. ~(\/ WorkerThrows \/ Crash)
  BY <1>0 DEF WorkerThrows, Crash
<1>2. ASSUME NEW i \in Items, status'[i] = "sending", status[i] = "sending"
      PROVE  InCall' /\ job'.item = i
  <2>1. wpc \in { "calling", "answered" } /\ job.item = i
    BY <1>2 DEF CallsEnd, InCall
  <2>2. CASE WorkerStep
    <3>1. CASE \E kind \in OutcomeKinds : Purchase(kind)
      BY <1>0, <2>1, <3>1 DEF Purchase, InCall, Jobs
    <3>2. CASE Settle
      <4>1. status' = [ status EXCEPT ![i] = OutcomeStatus(i) ]
        BY <1>2, <2>1, <3>2 DEF Settle, Settleable
      <4>2. OutcomeStatus(i) # "sending"
        BY DEF OutcomeStatus
      <4> QED BY <1>0, <1>2, <4>1, <4>2
    <3> QED BY <2>1, <2>2, <3>1, <3>2
            DEF WorkerStep, Claim, HoldLoad, HoldWrite, LoadOrder, PreflightShort,
                PreflightPasses, RefuseInactive, IsNext, TakeLock, MarkSending, RunOver,
                FinishLoad, FinishWrite
  <2>3. CASE UNCHANGED worker
    BY <2>1, <2>3 DEF worker, InCall
  <2>4. CASE ~WorkerStep
    BY <1>1, <2>3, <2>4
       DEF Next, SweepStep, PollQuery, RecoverQuery, TryLock, RecoverDone,
           PollCompleted, PollEscalates, SkipRow, RecoverItem, Escalate, RefreshLoad,
           RefreshWrite, ReviewStep, PlanDelivered, PlanNotDelivered, PlanDeliveredManually,
           PlanResume, PlanRefund, PlanRefundDone, Propose, ApplyReview, Environment,
           ConfirmPayment, GrowOld, LandLate, Withdraw, ToggleEmergency, TopUp, SweepThrows,
           vars
  <2> QED BY <2>2, <2>4
<1>3. ASSUME NEW i \in Items, status'[i] = "sending", status[i] # "sending"
      PROVE  InCall' /\ job'.item = i
  <2>1. CASE MarkSending
    BY <1>0, <1>3, <2>1 DEF MarkSending, InCall
  <2>2. CASE WorkerStep /\ ~MarkSending
    <3>1. OutcomeStatus(job.item) # "sending"
      BY DEF OutcomeStatus
    <3> QED BY <1>0, <1>3, <2>2, <3>1
            DEF WorkerStep, Claim, HoldLoad, HoldWrite, LoadOrder, PreflightShort,
                PreflightPasses, RefuseInactive, TakeLock, Purchase, Settle, RunOver,
                FinishLoad, FinishWrite, rows
  <2>3. CASE SweepStep
    <3>1. ASSUME NEW r \in batch, PollCompleted(r) \/ PollEscalates(r) \/ RecoverItem(r)
          PROVE  FALSE
      <4>1. PICK to \in { "succeeded", "failed", "unknown" },
                 then \in { "escalate", "refresh" } : SettleRow(r, to, then)
        BY <3>1 DEF PollCompleted, PollEscalates, RecoverItem
      <4> QED BY <1>0, <1>3, <4>1 DEF SettleRow
    <3> QED BY <1>3, <2>3, <3>1
            DEF SweepStep, PollQuery, RecoverQuery, TryLock, RecoverDone, SkipRow,
                Escalate, RefreshLoad, RefreshWrite, rows
  <2>4. CASE ReviewStep
    BY <1>0, <1>3, <2>4
       DEF ReviewStep, PlanDelivered, PlanNotDelivered, PlanDeliveredManually,
           PlanResume, PlanRefund, PlanRefundDone, Propose, ApplyReview, rows
  <2>5. CASE Environment
    BY <1>3, <2>5 DEF Environment, ConfirmPayment, GrowOld, LandLate, Withdraw,
       ToggleEmergency, TopUp, WorkerThrows, SweepThrows, Crash, rows
  <2>6. CASE UNCHANGED vars
    BY <1>3, <2>6 DEF vars, rows
  <2> QED BY <2>1, <2>2, <2>3, <2>4, <2>5, <2>6 DEF Next
<1> QED BY <1>2, <1>3 DEF CallsEnd

\* So every behaviour without crashes and exceptions implements the ledger.
THEOREM LedgerIsKeptUnbroken ==
  ASSUME QuietWallet, MaxCrashes = 0, MaxThrows = 0
  PROVE  Spec => ImplementsLedger
<1>1. Init => CallsEnd
  BY DEF Init, CallsEnd
<1>2. TypeOK /\ LiveCallsAreGuarded /\ CallsEnd /\ [Next]_vars => CallsEnd'
  BY CallsEndStep
<1>3. Spec => []CallsEnd
  BY <1>1, <1>2, TypeCorrect, LiveCallsGuarded, PTL DEF Spec
<1>4. Spec /\ []CallsEnd => ImplementsLedger
  BY LedgerIsKept
<1> QED BY <1>3, <1>4, PTL

------------------------------------------------------------------------------
(* Review: an admin decides on the rows as they are at the commit, however *)
(* old the page was, and the two loops leave to the admin what is theirs.  *)

\* What the two loops may do about an item's row.
Turns(i) ==
  \/ status'[i] = status[i]
  \/ status[i] \in Dispatchable /\ status'[i] = "sending"
  \/ status[i] = "sending" /\ status'[i] \in { "succeeded", "failed", "unknown", "provider_pending" }
  \/ status[i] = "provider_pending" /\ status'[i] \in { "succeeded", "failed", "unknown" }

\* A row is written by the worker's send and the settlements alone.
LEMMA RowTurns ==
  ASSUME TypeOK, LiveCallsAreGuarded, [Next]_vars, ~ApplyReview
  PROVE  byHand' = byHand /\ \A i \in Items : Turns(i)
<1>0. /\ status \in [Items -> ItemStatuses] /\ CallInv
      /\ wpc \in { "locked", "calling", "answered" } => job.item \in Items
  BY DEF TypeOK, RowsOK, WorkerOK, LiveCallsAreGuarded
<1>1. byHand' = byHand
  <2>1. CASE WorkerStep
    BY <2>1 DEF WorkerStep, Claim, HoldLoad, HoldWrite, LoadOrder, PreflightShort,
       PreflightPasses, RefuseInactive, TakeLock, MarkSending, Purchase, Settle, RunOver,
       FinishLoad, FinishWrite
  <2>2. CASE SweepStep
    BY <2>2 DEF SweepStep, PollQuery, RecoverQuery, TryLock, RecoverDone, PollCompleted,
       PollEscalates, SkipRow, RecoverItem, Escalate, RefreshLoad, RefreshWrite
  <2>3. CASE ReviewStep
    BY <2>3 DEF ReviewStep, PlanDelivered, PlanNotDelivered, PlanDeliveredManually,
       PlanResume, PlanRefund, PlanRefundDone, Propose
  <2>4. CASE Environment \/ UNCHANGED vars
    BY <2>4 DEF Environment, ConfirmPayment, GrowOld, LandLate, Withdraw, ToggleEmergency,
       TopUp, WorkerThrows, SweepThrows, Crash, vars
  <2> QED BY <2>1, <2>2, <2>3, <2>4 DEF Next
<1> SUFFICES \A i \in Items : Turns(i)
  BY <1>1
<1>2. CASE UNCHANGED status
  BY <1>2 DEF Turns
<1>3. ASSUME NEW i \in job.todo, RefuseInactive(i) PROVE \A j \in Items : Turns(j)
  BY <1>0, <1>3 DEF RefuseInactive, Turns, Settleable
<1>4. CASE MarkSending
  BY <1>0, <1>4 DEF MarkSending, Turns
<1>5. CASE Settle
  <2>1. /\ status[job.item] = "sending" /\ job.item \in Items
        /\ status' = [ status EXCEPT ![job.item] = OutcomeStatus(job.item) ]
    BY <1>0, <1>5 DEF Settle, CallInv, InCall, Settleable
  <2>2. OutcomeStatus(job.item) \in { "succeeded", "failed", "unknown", "provider_pending" }
    BY DEF OutcomeStatus
  <2> QED BY <1>0, <2>1, <2>2 DEF Turns
<1>6. ASSUME NEW r \in batch, PollCompleted(r) \/ PollEscalates(r) \/ RecoverItem(r)
      PROVE  \A i \in Items : Turns(i)
  <2>1. PICK to \in { "succeeded", "failed", "unknown" },
             then \in { "escalate", "refresh" } : SettleRow(r, to, then)
    BY <1>6 DEF PollCompleted, PollEscalates, RecoverItem
  <2> QED BY <1>0, <2>1 DEF SettleRow, Settleable, Turns
<1>7. CASE WorkerStep
  BY <1>2, <1>3, <1>4, <1>5, <1>7
     DEF WorkerStep, Claim, HoldLoad, HoldWrite, LoadOrder, PreflightShort,
         PreflightPasses, TakeLock, Purchase, RunOver, FinishLoad, FinishWrite, rows
<1>8. CASE SweepStep
  BY <1>2, <1>6, <1>8 DEF SweepStep, PollQuery, RecoverQuery, TryLock, RecoverDone,
     SkipRow, Escalate, RefreshLoad, RefreshWrite, rows
<1>9. CASE ReviewStep
  BY <1>2, <1>9 DEF ReviewStep, PlanDelivered, PlanNotDelivered, PlanDeliveredManually,
     PlanResume, PlanRefund, PlanRefundDone, Propose, rows
<1>10. CASE Environment \/ UNCHANGED vars
  BY <1>2, <1>10 DEF Environment, ConfirmPayment, GrowOld, LandLate, Withdraw,
     ToggleEmergency, TopUp, WorkerThrows, SweepThrows, Crash, rows, vars
<1> QED BY <1>1, <1>7, <1>8, <1>9, <1>10 DEF Next

\* Only a call that is out delivers.
LEMMA CallDelivers ==
  ASSUME TypeOK, LiveCallsAreGuarded, RetriesAreUncharged, [Next]_vars, NEW i \in Items
  PROVE  \/ charged'[i] = charged[i]
         \/ /\ charged[i] = 0 /\ charged'[i] = 1
            /\ status[i] = "sending" /\ status'[i] = "sending"
<1>0. /\ HandInv /\ CallInv /\ late = {} /\ charged \in [Items -> Nat]
      /\ wpc \in { "locked", "calling", "answered" } => job.item \in Items
  BY MoneyFacts
<1>1. CASE UNCHANGED charged
  BY <1>1
<1>2. ASSUME NEW kind \in OutcomeKinds, Purchase(kind)
      PROVE  \/ charged'[i] = charged[i]
             \/ /\ charged[i] = 0 /\ charged'[i] = 1
                /\ status[i] = "sending" /\ status'[i] = "sending"
  <2>1. /\ wpc = "calling" /\ UNCHANGED status
        /\ charged' = charged \/ charged' = [ charged EXCEPT ![job.item] = @ + 1 ]
    BY <1>2 DEF Purchase, rows
  <2>2. charged[job.item] = 0 /\ status[job.item] = "sending"
    BY <1>0, <2>1 DEF HandInv, CallInv, InCall
  <2> QED BY <1>0, <2>1, <2>2
<1>3. CASE WorkerStep
  BY <1>1, <1>2, <1>3 DEF WorkerStep, Claim, HoldLoad, HoldWrite, LoadOrder, PreflightShort,
     PreflightPasses, RefuseInactive, TakeLock, MarkSending, Settle, RunOver, FinishLoad,
     FinishWrite, provider
<1>4. CASE SweepStep
  BY <1>1, <1>4 DEF SweepStep, PollQuery, RecoverQuery, TryLock, RecoverDone, PollCompleted,
     PollEscalates, SkipRow, RecoverItem, Escalate, RefreshLoad, RefreshWrite, provider
<1>5. CASE ReviewStep
  BY <1>1, <1>5 DEF ReviewStep, PlanDelivered, PlanNotDelivered, PlanDeliveredManually,
     PlanResume, PlanRefund, PlanRefundDone, Propose, ApplyReview, provider
<1>6. CASE Environment \/ UNCHANGED vars
  BY <1>0, <1>1, <1>6 DEF Environment, ConfirmPayment, GrowOld, LandLate, Withdraw,
     ToggleEmergency, TopUp, WorkerThrows, SweepThrows, Crash, provider, vars
<1> QED BY <1>3, <1>4, <1>5, <1>6 DEF Next

\* So an item is sent when it was not given, and settled as failed only if the
\* call did not get through and as pending only if it did.
LEMMA MachineWorks ==
  ASSUME TypeOK, LiveCallsAreGuarded, RetriesAreUncharged, HonestInv, QuietWallet, [Next]_vars,
         ~ApplyReview, NEW i \in Items
  PROVE  <<status'[i], Given'[i]>> = <<status[i], Given[i]>> \/ ReviewDesk!Works(i)
<1>0. /\ MoneyItems /\ status \in [Items -> ItemStatuses] /\ charged \in [Items -> Nat]
  BY MoneyFacts
<1>1. MoneyItems' /\ HonestInv'
  <2>1. RetriesAreUncharged'
    BY MoneyStep
  <2>2. HonestInv'
    BY HonestStep
  <2> QED BY <2>1, <2>2 DEF RetriesAreUncharged, MoneyInv, MoneyItems
<1>2. byHand' = byHand /\ Turns(i)
  BY RowTurns
<1>3. \/ charged'[i] = charged[i]
      \/ charged[i] = 0 /\ charged'[i] = 1 /\ status[i] = "sending" /\ status'[i] = "sending"
  BY CallDelivers
<1>4. /\ charged[i] \in {0, 1}
      /\ status[i] \in Dispatchable => charged[i] = 0 /\ i \notin byHand
      /\ i \in byHand => status[i] = "succeeded"
      /\ status'[i] = "failed" => charged'[i] = 0
      /\ status'[i] = "provider_pending" => charged'[i] = 1
      /\ status[i] = "provider_pending" => charged[i] = 1
  BY <1>0, <1>1 DEF MoneyItems, HonestInv, Dispatchable
<1>5. /\ Given[i] = charged[i] + (IF i \in byHand THEN 1 ELSE 0)
      /\ Given'[i] = charged'[i] + (IF i \in byHand' THEN 1 ELSE 0)
  BY DEF Given
<1>6. status[i] # "succeeded" => Given[i] = charged[i] /\ Given'[i] = charged'[i]
  BY <1>0, <1>2, <1>3, <1>4, <1>5
<1>7. CASE status'[i] = status[i] /\ charged'[i] = charged[i]
  BY <1>2, <1>5, <1>7
<1>8. CASE charged'[i] # charged[i]
  BY <1>3, <1>6, <1>8 DEF ReviewDesk!Works
<1>9. CASE status'[i] # status[i]
  BY <1>2, <1>3, <1>4, <1>6, <1>9 DEF ReviewDesk!Works, Turns, Dispatchable
<1> QED BY <1>7, <1>8, <1>9

\* What the two loops, and a payment, write of an order.
LEMMA MachineMoves ==
  ASSUME TypeOK, WholeInv, DeskInv, [Next]_vars, ~ApplyReview, NEW o \in Orders
  PROVE  orderStatus'[o] = orderStatus[o] \/ ReviewDesk!Moves(o)
<1>0. orderStatus \in [Orders -> OrderStatuses] /\ \A p : ReviewDesk!ItemsOf(p) = ItemsOf(p)
  BY DEF TypeOK, RowsOK, ReviewDesk!ItemsOf, ItemsOf
<1>1. Whole(o) => ReviewDesk!ItemsOf(o) \subseteq ReviewDesk!Done(o)
  BY <1>0 DEF Whole, ReviewDesk!Done
<1>2. CASE UNCHANGED orderStatus
  BY <1>2
<1>3. ASSUME \/ orderStatus'[o] = orderStatus[o]
             \/ /\ orderStatus'[o] \in Derivable
                /\ orderStatus'[o] = "completed" => Whole(o)
      PROVE  orderStatus'[o] = orderStatus[o] \/ ReviewDesk!Moves(o)
  BY <1>1, <1>3 DEF Derivable, ReviewDesk!Moves
<1>4. CASE \/ \E p \in Orders : Claim(p)
           \/ HoldWrite \/ PreflightShort \/ PreflightPasses \/ Escalate
  <2>1. orderStatus'[o] \in { orderStatus[o], "processing", "needs_review" }
    BY <1>0, <1>4 DEF Claim, HoldWrite, PreflightShort, PreflightPasses, Escalate
  <2> QED BY <1>3, <2>1 DEF Derivable
<1>5. CASE FinishWrite
  <2>1. /\ wpc = "finishing"
        /\ \/ orderStatus'[o] = orderStatus[o]
           \/ o = job.order /\ orderStatus'[o] = job.final
    BY <1>0, <1>5 DEF FinishWrite
  <2> QED BY <1>3, <2>1 DEF DeskInv, WholeInv
<1>6. CASE RefreshWrite
  <2>1. /\ spc = "refreshing"
        /\ \/ orderStatus'[o] = orderStatus[o]
           \/ o = sjob.order /\ orderStatus'[o] = sjob.final
    BY <1>0, <1>6 DEF RefreshWrite
  <2> QED BY <1>3, <2>1 DEF DeskInv, WholeInv
<1>7. ASSUME NEW p \in Orders, ConfirmPayment(p)
      PROVE  orderStatus'[o] = orderStatus[o] \/ ReviewDesk!Moves(o)
  BY <1>0, <1>7 DEF ConfirmPayment, ReviewDesk!Moves
<1>8. CASE WorkerStep
  BY <1>2, <1>4, <1>5, <1>8 DEF WorkerStep, HoldLoad, LoadOrder, RefuseInactive, TakeLock,
     MarkSending, Purchase, Settle, RunOver, FinishLoad, rows
<1>9. CASE SweepStep
  BY <1>2, <1>4, <1>6, <1>9 DEF SweepStep, PollQuery, RecoverQuery, TryLock, RecoverDone,
     PollCompleted, PollEscalates, SkipRow, RecoverItem, RefreshLoad, rows
<1>10. CASE ReviewStep
  BY <1>2, <1>10 DEF ReviewStep, PlanDelivered, PlanNotDelivered, PlanDeliveredManually,
     PlanResume, PlanRefund, PlanRefundDone, Propose, rows
<1>11. CASE Environment \/ UNCHANGED vars
  BY <1>2, <1>7, <1>11 DEF Environment, GrowOld, LandLate, Withdraw, ToggleEmergency,
     TopUp, WorkerThrows, SweepThrows, Crash, rows, vars
<1> QED BY <1>8, <1>9, <1>10, <1>11 DEF Next

\* Whatever is not the commit of a review is the machine's.
LEMMA MachineRefines ==
  ASSUME TypeOK, LiveCallsAreGuarded, RetriesAreUncharged, HonestInv, WholeInv, DeskInv,
         QuietWallet, [Next]_vars, ~ApplyReview
  PROVE  ReviewDesk!Machine
<1>1. TypeOK'
  BY TypeStep
<1>2. ReviewDesk!TypeOK'
  <2>1. /\ orderStatus' \in [Orders -> OrderStatuses] /\ status' \in [Items -> ItemStatuses]
        /\ charged' \in [Items -> Nat]
    BY <1>1 DEF TypeOK, RowsOK, ProviderOK
  <2>2. \A i \in Items : charged'[i] + (IF i \in byHand' THEN 1 ELSE 0) \in Nat
    BY <2>1
  <2>3. Given' \in [Items -> Nat]
    BY <2>2 DEF Given
  <2> QED BY <2>1, <2>3 DEF ReviewDesk!TypeOK, ReviewDesk!OrderStatuses,
          ReviewDesk!ItemStatuses, OrderStatuses, ItemStatuses
<1> QED BY <1>2, MachineWorks, MachineMoves DEF ReviewDesk!Machine

\* What DeskInv says of a review in hand, but for the rows of the rest.
PlanDesk ==
  /\ plan = NoPlan \/ ToBook \/ ToSendOne \/ ToSendLeft \/ ToRefund \/ ToCancel
  /\ plan.expected = CASE plan = NoPlan -> "none"
                       [] ToCancel     -> "refund_required"
                       [] OTHER        -> "needs_review"
  /\ ToBook \/ ToSendOne => \E i \in Items : AboutOne(i)
  /\ ToSendOne \/ plan.kind = "delivered" =>
       \A i \in DOMAIN plan.was : plan.was[i] \in { "unknown", "failed" }
  /\ ToSendLeft =>
       /\ DOMAIN plan.was # {} /\ DOMAIN plan.was \subseteq ItemsOf(plan.order)
       /\ \A i \in DOMAIN plan.was : plan.was[i] \in Dispatchable

\* And for those.
RestOfPlan ==
  ToSendLeft =>
    /\ \A i \in ItemsOf(plan.order) \ DOMAIN plan.was :
         status[i] \in { "succeeded", "provider_pending", "unknown" }
    /\ plan.next = "partially_delivered" =>
         \E i \in ItemsOf(plan.order) : status[i] = "succeeded"

LEMMA DeskParts ==
  DeskInv <=> /\ wpc = "finishing" => job.final \in Derivable
              /\ spc = "refreshing" => sjob.final \in Derivable
              /\ PlanDesk /\ RestOfPlan
BY DEF DeskInv, PlanDesk, RestOfPlan

LEMMA DeskInit == Init => DeskInv
BY DEF Init, DeskInv, NoPlan, ToBook, ToSendOne, ToSendLeft, ToRefund, ToCancel

LEMMA DerivedIsDerivable == \A o : Derived(o) \in Derivable
BY DEF Derived, DeriveOrderStatus, Derivable

\* A review's load makes a plan that is one of the five.
LEMMA PlanMade ==
  ASSUME TypeOK, plan = NoPlan, ReviewStep, ~ApplyReview
  PROVE  PlanDesk' /\ RestOfPlan'
<1>0. status \in [Items -> ItemStatuses]
  BY DEF TypeOK, RowsOK
<1>1. ASSUME NEW kind, NEW o, NEW next, NEW S, Propose(kind, o, next, S)
      PROVE  /\ plan' = [ kind |-> kind, order |-> o, expected |-> orderStatus[o],
                          next |-> next, was |-> [ i \in S |-> status[i] ] ]
             /\ plan'.kind = kind /\ plan'.order = o /\ plan'.expected = orderStatus[o]
             /\ plan'.next = next /\ DOMAIN plan'.was = S
             /\ \A i \in S : plan'.was[i] = status[i]
             /\ UNCHANGED status
  BY <1>1 DEF Propose, rows
<1> DEFINE Kinds == PlanDesk /\ RestOfPlan
<1>2. ASSUME NEW i \in Items, PlanDelivered(i) \/ PlanDeliveredManually(i) PROVE Kinds'
  <2>1. PICK kind \in { "delivered", "by_hand" }, next \in { "completed", "needs_review" } :
          Propose(kind, OrderOf[i], next, {i})
    BY <1>2 DEF PlanDelivered, PlanDeliveredManually
  <2>2. InReview(OrderOf[i]) /\ (kind = "delivered" => status[i] \in { "unknown", "failed" })
    BY <1>1, <1>2, <2>1 DEF PlanDelivered, PlanDeliveredManually
  <2>3. /\ plan'.kind = kind /\ plan'.order = OrderOf[i] /\ plan'.expected = "needs_review"
        /\ plan'.next = next /\ DOMAIN plan'.was = {i} /\ plan'.was[i] = status[i]
    BY <1>1, <2>1, <2>2 DEF InReview
  <2> QED BY <2>1, <2>2, <2>3 DEF PlanDesk, RestOfPlan, ToBook, ToSendOne, ToSendLeft,
          ToRefund, ToCancel, AboutOne, NoPlan
<1>3. ASSUME NEW i \in Items, PlanNotDelivered(i) PROVE Kinds'
  <2>1. /\ InReview(OrderOf[i]) /\ status[i] \in { "unknown", "failed" }
        /\ Propose("requeue", OrderOf[i], "needs_review", {i})
    BY <1>3 DEF PlanNotDelivered
  <2>2. /\ plan'.kind = "requeue" /\ plan'.order = OrderOf[i] /\ plan'.expected = "needs_review"
        /\ plan'.next = "needs_review" /\ DOMAIN plan'.was = {i} /\ plan'.was[i] = status[i]
    BY <1>1, <2>1 DEF InReview
  <2> QED BY <2>1, <2>2 DEF PlanDesk, RestOfPlan, ToBook, ToSendOne, ToSendLeft,
          ToRefund, ToCancel, AboutOne, NoPlan
<1>4. ASSUME NEW o \in Orders, PlanResume(o) PROVE Kinds'
  <2> DEFINE S == { i \in ItemsOf(o) : status[i] \in Dispatchable }
  <2>1. PICK next \in { "payment_confirmed", "partially_delivered" } :
          /\ Propose("requeue", o, next, S)
          /\ next = "partially_delivered" => \E i \in ItemsOf(o) : status[i] = "succeeded"
    BY <1>4 DEF PlanResume
  <2>2. /\ InReview(o) /\ S # {}
        /\ \A i \in ItemsOf(o) : status[i] # "unknown" /\ status[i] # "sending"
    BY <1>4 DEF PlanResume
  <2>3. /\ plan'.kind = "requeue" /\ plan'.order = o /\ plan'.expected = "needs_review"
        /\ plan'.next = next /\ DOMAIN plan'.was = S /\ UNCHANGED status
        /\ \A i \in S : plan'.was[i] = status[i]
    BY <1>1, <2>1, <2>2 DEF InReview
  <2>4. \A i \in ItemsOf(o) \ S : status[i] \in { "succeeded", "provider_pending" }
    BY <1>0, <2>2 DEF ItemsOf, Dispatchable, ItemStatuses
  <2>5. S \subseteq ItemsOf(o) /\ \A i \in S : status[i] \in Dispatchable
    OBVIOUS
  <2>6. RestOfPlan'
    BY <2>1, <2>3, <2>4 DEF RestOfPlan, ItemsOf
  <2>7. PlanDesk'
    BY <2>2, <2>3, <2>5 DEF PlanDesk, ToBook, ToSendOne, ToSendLeft, ToRefund, ToCancel,
       NoPlan, ItemsOf
  <2> QED BY <2>6, <2>7
<1>5. ASSUME NEW o \in Orders, PlanRefund(o) \/ PlanRefundDone(o) PROVE Kinds'
  <2>1. \/ InReview(o) /\ Propose("refund", o, "refund_required", {})
        \/ orderStatus[o] = "refund_required" /\ Propose("refund_done", o, "cancelled", {})
    BY <1>5 DEF PlanRefund, PlanRefundDone
  <2>2. \/ /\ plan'.kind = "refund" /\ plan'.next = "refund_required"
           /\ plan'.expected = "needs_review"
        \/ /\ plan'.kind = "refund_done" /\ plan'.next = "cancelled"
           /\ plan'.expected = "refund_required"
    BY <1>1, <2>1 DEF InReview
  <2> QED BY <2>2 DEF PlanDesk, RestOfPlan, ToBook, ToSendOne, ToSendLeft,
          ToRefund, ToCancel, NoPlan
<1> QED BY <1>2, <1>3, <1>4, <1>5 DEF ReviewStep

\* What is left of the order is in the review's hands until it commits: the
\* rest is never left again, and no call of it goes out.
LEMMA DeskStep ==
  ASSUME TypeOK, LiveCallsAreGuarded, RetriesAreUncharged, HonestInv, DeskInv, QuietWallet,
         [Next]_vars
  PROVE  DeskInv'
<1>0. PlanDesk /\ RestOfPlan
  BY DeskParts
<1>1. (wpc = "finishing" => job.final \in Derivable)'
  <2>1. CASE UNCHANGED <<wpc, job>>
    BY <2>1, DeskParts
  <2>2. ASSUME wpc' = "finishing", ~ UNCHANGED <<wpc, job>> PROVE job'.final \in Derivable
    <3>1. FinishLoad
      BY <2>2, FinishLoads
    <3>2. job' = [ NoJob EXCEPT !.order = job.order, !.seen = orderStatus[job.order],
                     !.final = IF job.halted # "no" THEN "needs_review"
                               ELSE Derived(job.order) ]
      BY <3>1 DEF FinishLoad
    <3>3. job'.final \in { "needs_review", Derived(job.order) }
      BY <3>2, NoJobType DEF Jobs
    <3> QED BY <3>3, DerivedIsDerivable DEF Derivable
  <2> QED BY <2>1, <2>2
<1>2. (spc = "refreshing" => sjob.final \in Derivable)'
  <2>1. CASE UNCHANGED <<spc, sjob>>
    BY <2>1, DeskParts
  <2>2. ASSUME spc' = "refreshing", ~ UNCHANGED <<spc, sjob>> PROVE sjob'.final \in Derivable
    <3>1. RefreshLoad
      BY <2>2, RefreshLoads
    <3>2. sjob'.final = Refreshed(sjob.order)
      BY <2>2, <3>1 DEF RefreshLoad, TypeOK, SweepOK, SweepJobs
    <3> QED BY <3>2, DerivedIsDerivable DEF Refreshed, Derivable
  <2> QED BY <2>1, <2>2
<1>3. PlanDesk' /\ RestOfPlan'
  <2>1. CASE UNCHANGED plan /\ ~ApplyReview
    <3>1. PlanDesk'
      BY <1>0, <2>1 DEF PlanDesk, ToBook, ToSendOne, ToSendLeft, ToRefund, ToCancel, AboutOne
    <3>2. \A i \in Items :
            /\ status[i] \in { "succeeded", "provider_pending", "unknown" } =>
                 status'[i] \in { "succeeded", "provider_pending", "unknown" }
            /\ status[i] = "succeeded" => status'[i] = "succeeded"
      BY <2>1, MachineWorks DEF ReviewDesk!Works
    <3> QED BY <1>0, <2>1, <3>1, <3>2 DEF RestOfPlan, ToSendLeft, ItemsOf
  <2>2. CASE ApplyReview
    BY <2>2 DEF ApplyReview, PlanDesk, RestOfPlan, ToBook, ToSendOne, ToSendLeft, ToRefund,
       ToCancel, NoPlan
  <2>3. CASE ReviewStep /\ ~ApplyReview
    <3>1. plan = NoPlan
      BY <2>3 DEF ReviewStep, PlanDelivered, PlanNotDelivered, PlanDeliveredManually,
         PlanResume, PlanRefund, PlanRefundDone, Propose
    <3> QED BY <2>3, <3>1, PlanMade
  <2>4. CASE ~ReviewStep
    <3>1. UNCHANGED plan
      BY <2>4 DEF Next, WorkerStep, Claim, HoldLoad, HoldWrite, LoadOrder, PreflightShort,
         PreflightPasses, RefuseInactive, TakeLock, MarkSending, Purchase, Settle, RunOver,
         FinishLoad, FinishWrite, SweepStep, PollQuery, RecoverQuery, TryLock, RecoverDone,
         PollCompleted, PollEscalates, SkipRow, RecoverItem, Escalate, RefreshLoad,
         RefreshWrite, Environment, ConfirmPayment, GrowOld, LandLate, Withdraw,
         ToggleEmergency, TopUp, WorkerThrows, SweepThrows, Crash, vars
    <3>2. ~ApplyReview
      BY <2>4 DEF ReviewStep
    <3> QED BY <2>1, <3>1, <3>2
  <2> QED BY <2>2, <2>3, <2>4
<1> QED BY <1>1, <1>2, <1>3 DEF DeskInv, PlanDesk, RestOfPlan

\* A commit that goes through is the admin's action on the rows as they are.
LEMMA CommitRefines ==
  ASSUME TypeOK, LiveCallsAreGuarded, RetriesAreUncharged, HonestInv, WholeInv, DeskInv,
         ApplyReview, Unmoved
  PROVE  ReviewDesk!Next
<1> DEFINE o == plan.order
           S == DOMAIN plan.was
<1>0. /\ MoneyItems /\ HandInv /\ PlanInv /\ S \subseteq Items /\ PlanBooked
      /\ PlanDesk /\ RestOfPlan /\ o \in Orders /\ plan # NoPlan
      /\ charged \in [Items -> Nat] /\ byHand \subseteq Items
      /\ status \in [Items -> ItemStatuses] /\ orderStatus \in [Orders -> OrderStatuses]
  BY MoneyFacts, PlanBookedHolds, DeskParts DEF TypeOK, PlanOK, ApplyReview, RowsOK
<1>1. /\ orderStatus' = [ orderStatus EXCEPT ![o] = plan.next ]
      /\ status' = [ i \in Items |->
           IF i \notin S THEN status[i]
           ELSE IF plan.kind = "requeue" THEN "queued" ELSE "succeeded" ]
      /\ byHand' = IF plan.kind = "by_hand" THEN byHand \cup S ELSE byHand
      /\ UNCHANGED charged
      /\ orderStatus[o] = plan.expected /\ \A i \in S : status[i] = plan.was[i]
  BY DEF ApplyReview, Unmoved, provider
<1>2. /\ \A p : ReviewDesk!ItemsOf(p) = ItemsOf(p)
      /\ \A p : ReviewDesk!Left(p) = { i \in ItemsOf(p) : status[i] \in Dispatchable }
      /\ \A p : ReviewDesk!Done(p) = { i \in ItemsOf(p) : status[i] = "succeeded" }
  BY DEF ReviewDesk!ItemsOf, ReviewDesk!Left, ReviewDesk!Done, ItemsOf, Dispatchable
<1>3. /\ Given \in [Items -> Int]
      /\ \A i \in Items : status[i] # "succeeded" => Given[i] = charged[i]
      /\ \A i \in Items : status[i] \in Dispatchable => Given[i] = 0
  BY <1>0 DEF Given, MoneyItems, Dispatchable
<1>4. byHand' = byHand => Given' = Given
  BY <1>1 DEF Given
<1>5. ToCancel \/ orderStatus[o] = "needs_review"
  BY <1>0, <1>1 DEF PlanDesk
<1>6. CASE ToRefund \/ ToCancel
  <2>1. S = {} /\ byHand' = byHand
    BY <1>0, <1>1, <1>6 DEF ToRefund, ToCancel, PlanBooked
  <2>2. status' = status /\ Given' = Given
    BY <1>0, <1>1, <1>4, <2>1
  <2>3. CASE ToRefund
    <3>1. orderStatus[o] = "needs_review"
      BY <1>5, <2>3 DEF ToRefund, ToCancel
    <3> QED BY <1>0, <1>1, <2>2, <2>3, <3>1
            DEF ToRefund, ReviewDesk!Next, ReviewDesk!Refund, ReviewDesk!Parked
  <2>4. CASE ToCancel
    <3>1. orderStatus[o] = "refund_required"
      BY <1>0, <1>1, <2>4 DEF PlanDesk
    <3> QED BY <1>0, <1>1, <2>2, <2>4, <3>1
            DEF ToCancel, ReviewDesk!Next, ReviewDesk!RefundDone
  <2> QED BY <1>6, <2>3, <2>4
<1>7. CASE ToSendOne
  <2>1. PICK i \in Items : S = {i} /\ o = OrderOf[i]
    BY <1>0, <1>7 DEF PlanDesk, AboutOne
  <2>2. /\ plan.was[i] \in { "unknown", "failed" } /\ status[i] = plan.was[i]
        /\ plan.kind = "requeue" /\ plan.next = "needs_review"
    BY <1>0, <1>1, <1>7, <2>1 DEF PlanDesk, ToSendOne
  <2>3. Given[i] = 0
    BY <1>0, <1>3, <2>1, <2>2 DEF HandInv, Dispatchable
  <2>4. status' = [ status EXCEPT ![i] = "queued" ]
    BY <1>0, <1>1, <2>1, <2>2
  <2>5. orderStatus[o] = "needs_review"
    BY <1>5, <2>2 DEF ToCancel
  <2>6. orderStatus' = orderStatus /\ Given' = Given
    BY <1>0, <1>1, <1>4, <2>2, <2>5
  <2>7. ReviewDesk!NotDelivered(i)
    BY <2>1, <2>2, <2>3, <2>4, <2>5, <2>6
       DEF ReviewDesk!NotDelivered, ReviewDesk!Parked, ReviewDesk!Doubtful
  <2> QED BY <2>7 DEF ReviewDesk!Next
<1>8. CASE ToBook
  <2>1. PICK i \in Items : S = {i} /\ o = OrderOf[i]
    BY <1>0, <1>8 DEF PlanDesk, AboutOne
  <2>2. /\ plan.kind \in { "delivered", "by_hand" } /\ status[i] = plan.was[i]
        /\ plan.next \in { "needs_review", "completed" } /\ orderStatus[o] = "needs_review"
    BY <1>1, <1>5, <1>8, <2>1 DEF ToBook, ToCancel
  <2>3. status' = [ status EXCEPT ![i] = "succeeded" ]
    BY <1>0, <1>1, <2>1, <2>2
  <2>4. ReviewDesk!Book(i)
    <3>1. CASE plan.next = "needs_review"
      <4>1. orderStatus' = orderStatus
        BY <1>0, <1>1, <2>2, <3>1
      <4> QED BY <2>1, <2>2, <2>3, <4>1 DEF ReviewDesk!Book, ReviewDesk!Parked
    <3>2. CASE plan.next = "completed"
      <4>1. \A j \in ItemsOf(o) : j = i \/ status[j] = "succeeded"
        BY <2>1, <3>2 DEF WholeInv
      <4>2. ReviewDesk!ItemsOf(o) \subseteq ReviewDesk!Done(o) \cup {i}
        BY <1>2, <4>1
      <4>3. orderStatus' = [ orderStatus EXCEPT ![o] = "completed" ]
        BY <1>1, <3>2
      <4> QED BY <2>1, <2>2, <2>3, <4>2, <4>3 DEF ReviewDesk!Book, ReviewDesk!Parked
    <3> QED BY <2>2, <3>1, <3>2
  <2>5. CASE plan.kind = "delivered"
    <3>1. /\ charged[i] = 1 /\ status[i] \in { "unknown", "failed" } /\ byHand' = byHand
      BY <1>0, <1>1, <2>1, <2>2, <2>5 DEF PlanBooked, PlanDesk
    <3>2. Given[i] = 1 /\ Given' = Given
      BY <1>3, <1>4, <3>1
    <3> QED BY <2>4, <3>1, <3>2
            DEF ReviewDesk!Next, ReviewDesk!Delivered, ReviewDesk!Doubtful
  <2>6. CASE plan.kind = "by_hand"
    <3>1. status[i] \in Dispatchable
      BY <1>0, <2>1, <2>2, <2>6 DEF PlanInv
    <3>2. Given[i] = 0 /\ charged[i] = 0 /\ byHand' = byHand \cup {i}
      BY <1>0, <1>1, <1>3, <2>1, <2>6, <3>1 DEF MoneyItems
    <3>3. \A j \in Items : Given'[j] = IF j = i THEN 1 ELSE Given[j]
      BY <1>0, <1>1, <3>2 DEF Given
    <3>4. Given' = [ Given EXCEPT ![i] = 1 ]
      BY <3>3 DEF Given
    <3>5. i \in ReviewDesk!Left(OrderOf[i])
      BY <1>2, <2>1, <3>1 DEF ItemsOf
    <3> QED BY <2>4, <3>2, <3>4, <3>5 DEF ReviewDesk!Next, ReviewDesk!DeliveredManually
  <2> QED BY <2>2, <2>5, <2>6
<1>9. CASE ToSendLeft
  <2>1. /\ plan.kind = "requeue" /\ byHand' = byHand /\ orderStatus[o] = "needs_review"
        /\ plan.next \in { "payment_confirmed", "partially_delivered" }
    BY <1>1, <1>5, <1>9 DEF ToSendLeft, ToCancel
  <2>2. /\ S # {} /\ S \subseteq ItemsOf(o) /\ \A i \in S : status[i] \in Dispatchable
        /\ \A i \in ItemsOf(o) \ S : status[i] \in { "succeeded", "provider_pending", "unknown" }
    BY <1>0, <1>1, <1>9 DEF PlanDesk, RestOfPlan
  <2>3. ReviewDesk!Left(o) = S
    BY <1>2, <2>2 DEF Dispatchable
  <2>4. /\ \A i \in ReviewDesk!Left(o) : Given[i] = 0
        /\ \A i \in ReviewDesk!ItemsOf(o) : status[i] # "sending"
    BY <1>0, <1>2, <1>3, <2>2, <2>3 DEF Dispatchable
  <2>5. /\ status' = [ i \in Items |-> IF i \in ReviewDesk!Left(o) THEN "queued" ELSE status[i] ]
        /\ Given' = Given
    BY <1>1, <1>4, <2>1, <2>3
  <2>6. plan.next = "partially_delivered" => ReviewDesk!Done(o) # {}
    BY <1>0, <1>2, <1>9 DEF RestOfPlan
  <2>7. ReviewDesk!Resume(o)
    BY <1>1, <2>1, <2>2, <2>3, <2>4, <2>5, <2>6 DEF ReviewDesk!Resume, ReviewDesk!Parked
  <2> QED BY <1>0, <2>7 DEF ReviewDesk!Next
<1> QED BY <1>0, <1>6, <1>7, <1>8, <1>9 DEF PlanDesk

LEMMA ReviewInit == Init => ReviewDesk!Init
BY DEF Init, ReviewDesk!Init, Given

\* However old what an admin's request has loaded, and whatever the worker and the
\* sweep did meanwhile, crashed or not: what is decided is decided at once, on
\* the rows as they are. Nothing that was given is sent again, nothing that was
\* not is booked, nothing is started again while a call of its order is out,
\* and what nobody knows about is left to the admin. Reviews come one at a time;
\* with two at once it fails (TwoAdmins).
THEOREM ReviewsAreAtomic ==
  ASSUME QuietWallet
  PROVE  Spec => ImplementsReview
<1>1. TypeOK /\ LiveCallsAreGuarded /\ RetriesAreUncharged /\ HonestInv /\ WholeInv /\ DeskInv
        /\ [Next]_vars
        => HonestInv' /\ DeskInv' /\ [ReviewDesk!Next]_<<orderStatus, status, Given>>
  <2> SUFFICES ASSUME TypeOK, LiveCallsAreGuarded, RetriesAreUncharged, HonestInv, WholeInv,
                      DeskInv, [Next]_vars
               PROVE  /\ HonestInv' /\ DeskInv'
                      /\ [ReviewDesk!Next]_<<orderStatus, status, Given>>
    OBVIOUS
  <2>1. HonestInv'
    BY HonestStep
  <2>2. DeskInv'
    BY DeskStep
  <2>3. CASE ~ApplyReview
    BY <2>1, <2>2, <2>3, MachineRefines DEF ReviewDesk!Next
  <2>4. CASE ApplyReview /\ Unmoved
    BY <2>1, <2>2, <2>4, CommitRefines
  <2>5. CASE ApplyReview /\ ~Unmoved
    <3>1. UNCHANGED <<orderStatus, status, charged, byHand>>
      BY <2>5 DEF ApplyReview, provider
    <3>2. Given' = Given
      BY <3>1 DEF Given
    <3> QED BY <2>1, <2>2, <3>1, <3>2
  <2> QED BY <2>3, <2>4, <2>5
<1>2. Init => HonestInv
  BY BookedInit DEF BookedInv
<1> QED
  BY <1>1, <1>2, DeskInit, ReviewInit, WholeInit, WholeStep, TypeCorrect, LiveCallsGuarded,
     RetriesUncharged, PTL
     DEF Spec, ImplementsReview, ReviewDesk!Spec, ReviewDesk!rows
=============================================================================
