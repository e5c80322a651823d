---------------------------- MODULE Conversions ----------------------------
(***************************************************************************)
(* Reporting paid orders to the ad platform: a sweep reads the oldest sales*)
(* that were not reported, sends each, and books what came of it, one      *)
(* write at a time (conversions.ts, conversion-store.ts, meta-capi.ts).    *)
(* The platform counts an event_id once, whoever repeats it.               *)
(***************************************************************************)
EXTENDS SequencesExt

CONSTANTS
  Bought,      \* orders placed in a browser; those of the panel have no user agent
  MaxAttempts, \* config: failed reports an order may have
  BatchLimit,  \* config: orders per sweep
  WindowDays,  \* days a sale may be reported for
  MaxAge,      \* bound on the days that pass
  MaxBreaks    \* bound on crashes and failing writes

ASSUME ConversionsAssumption ==
  /\ IsFiniteSet(Bought) /\ MaxAttempts \in Nat \ {0} /\ BatchLimit \in Nat \ {0}
  /\ WindowDays \in Nat

VARIABLES
  day,       \* days since the first sale
  row,       \* orders: [status, paid, tries, sent], paid is the day
  batch,     \* what the sweep read and still has to send, with its tries then
  step,      \* where the sweep is
  counted,   \* sales the platform knows of
  alerts,    \* alerts sent, by order
  undone,    \* what happened: sales called off before any sweep held them, and
             \* not taken up again since
  cut,       \* what happened: sales whose failure was booked and no alert followed
  breaks     \* how much of the bound is spent

reportVars == <<day, row, batch, step, counted, alerts, undone, cut, breaks>>

NotPaid == [ status |-> "unpaid", paid |-> 0, tries |-> 0, sent |-> FALSE ]
Asleep  == [ at |-> "asleep" ]

ReportsInit ==
  /\ day = 0 /\ row = [ o \in Bought |-> NotPaid ]
  /\ batch = << >> /\ step = Asleep
  /\ counted = {} /\ alerts = [ o \in Bought |-> 0 ]
  /\ undone = {} /\ cut = {} /\ breaks = 0

------------------------------------------------------------------------------
(* Around the sweep.                                                       *)

DayPasses == /\ day < MaxAge /\ day' = day + 1
             /\ UNCHANGED <<row, batch, step, counted, alerts, undone, cut, breaks>>

Paid(o) ==
  /\ row[o].status = "unpaid"
  /\ row' = [ row EXCEPT ![o] = [ @ EXCEPT !.status = "sold", !.paid = day ] ]
  /\ UNCHANGED <<day, batch, step, counted, alerts, undone, cut, breaks>>

HeldBySweep(o) == \E i \in DOMAIN batch : batch[i].order = o

CalledOff == { "cancelled", "refund_required", "refunded" }

\* The order is cancelled, or its money must go back; or, completed, it is
\* reversed.
CallOff(o) ==
  /\ row[o].status = "sold"
  /\ \E status \in CalledOff : row' = [ row EXCEPT ![o].status = status ]
  /\ undone' = IF HeldBySweep(o) \/ o \in counted THEN undone ELSE undone \cup {o}
  /\ UNCHANGED <<day, batch, step, counted, alerts, cut, breaks>>

\* refreshOrderStatus had loaded the order before, and writes the status it
\* derived from its items over whatever the order has become.
RefreshOrderStatus(o) ==
  /\ row[o].status \in CalledOff
  /\ row' = [ row EXCEPT ![o].status = "sold" ] /\ undone' = undone \ {o}
  /\ UNCHANGED <<day, batch, step, counted, alerts, cut, breaks>>

------------------------------------------------------------------------------
(* The sweep.                                                              *)

NeverASale == {}    \* mutant: whatever was paid once is a sale
NotASale == { "cancelled", "refund_required" }

Unreported == { o \in Bought : /\ row[o].status \notin NotASale \cup { "unpaid" }
                               /\ row[o].paid + WindowDays > day
                               /\ ~row[o].sent /\ row[o].tries < MaxAttempts }

\* Some order of the unreported with the oldest first.
OldestFirst(S) ==
  { q \in SetToSeqs(S) : \A i, j \in DOMAIN q : i < j => row[q[i]].paid <= row[q[j]].paid }

FindUnreported ==
  /\ step = Asleep
  /\ \E q \in OldestFirst(Unreported) :
       batch' = [ i \in 1..(IF Len(q) < BatchLimit THEN Len(q) ELSE BatchLimit) |->
                    [ order |-> q[i], tries |-> row[q[i]].tries ] ]
  /\ step' = IF batch' = << >> THEN Asleep ELSE [ at |-> "send" ]
  /\ UNCHANGED <<day, row, counted, alerts, undone, cut, breaks>>

\* After an order: the next one, or the sweep is over.
Goes(on) ==
  /\ batch' = IF on THEN Tail(batch) ELSE << >>
  /\ step' = IF batch' = << >> THEN Asleep ELSE [ at |-> "send" ]

Current == Head(batch)

\* reportPurchase: accepted; lost, counted or not; busy; or refused for good.
Send ==
  /\ step.at = "send"
  /\ \E outcome \in { "ok", "retry", "refused" }, heard \in BOOLEAN :
       /\ outcome = "ok" => heard
       /\ outcome = "refused" => ~heard
       /\ counted' = IF heard THEN counted \cup { Current.order } ELSE counted
       /\ step' = IF outcome = "ok" THEN [ at |-> "mark" ]
                                    ELSE [ at |-> "book", again |-> outcome = "retry" ]
  /\ UNCHANGED <<day, row, batch, alerts, undone, cut, breaks>>

MarkReported ==
  /\ step.at = "mark"
  /\ row' = [ row EXCEPT ![Current.order].sent = TRUE ]
  /\ Goes(TRUE)
  /\ UNCHANGED <<day, counted, alerts, undone, cut, breaks>>

\* An order that ran out of tries, or was refused at its first one.
Alerting(tries, again) == tries >= MaxAttempts \/ (tries = 1 /\ ~again)

RecordFailedAttempt ==
  /\ step.at = "book"
  /\ row' = [ row EXCEPT ![Current.order].tries = @ + 1 ]
  /\ IF Alerting(Current.tries + 1, step.again)
     THEN step' = [ step EXCEPT !.at = "alert" ] /\ UNCHANGED batch
     ELSE Goes(step.again)
  /\ UNCHANGED <<day, counted, alerts, undone, cut, breaks>>

Alert ==
  /\ step.at = "alert"
  /\ alerts' = [ alerts EXCEPT ![Current.order] = @ + 1 ]
  /\ Goes(step.again)
  /\ UNCHANGED <<day, row, counted, undone, cut, breaks>>

\* A write or the alert throws, or the process dies: the rest waits for the
\* next sweep, and what was on its way here is forgotten.
Breaks ==
  /\ step # Asleep /\ breaks < MaxBreaks /\ breaks' = breaks + 1
  /\ step' = Asleep /\ batch' = << >>
  /\ cut' = IF step.at = "alert" THEN cut \cup { Current.order } ELSE cut
  /\ UNCHANGED <<day, row, counted, alerts, undone>>

ReportConversions == FindUnreported \/ Send \/ MarkReported \/ RecordFailedAttempt \/ Alert

ReportsNext ==
  \/ DayPasses \/ Breaks \/ ReportConversions
  \/ \E o \in Bought : Paid(o) \/ CallOff(o) \/ RefreshOrderStatus(o)
=============================================================================
