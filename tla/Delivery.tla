------------------------------ MODULE Delivery ------------------------------
(***************************************************************************)
(* The delivery service: how an order gets a driver and what becomes of    *)
(* the assignment.  Handlers and the sweep of expired offers run           *)
(* concurrently over delivery.deliveries and delivery.driver_status; each  *)
(* is a sequence of single statements, every UPDATE is by primary key      *)
(* alone, and the process may stop between any two of them.                *)
(***************************************************************************)
EXTENDS Integers, FiniteSets

CONSTANTS
  Tasks,        \* slots for concurrently running handlers and sweeps
  OrderIds,     \* orders; each has at most one delivery (UNIQUE order_id)
  Drivers,      \* active drivers the auth service lists
  NoDriver,     \* driver_user_id IS NULL
  MaxConfirms   \* how often the order service reports an order confirmed

ASSUME DeliveryAssumption == NoDriver \notin Drivers /\ MaxConfirms \in Nat

VARIABLES
  deliveries,   \* delivery.deliveries, by order
  online,       \* driver_status.is_online
  available,    \* driver_status.is_available
  due,          \* confirmations of an order still to arrive
  tasks,        \* the running handlers
  earnings      \* settlements started: who is paid for which order

vars == <<deliveries, online, available, due, tasks, earnings>>

AllowedNext ==
  [pending_assignment |-> {"assigned", "cancelled"},
   assigned |-> {"accepted_by_driver", "cancelled", "failed", "pending_assignment"},
   accepted_by_driver |-> {"arrived_at_pickup", "cancelled", "failed"},
   arrived_at_pickup |-> {"picked_up", "cancelled", "failed"},
   picked_up |-> {"on_the_way", "cancelled", "failed"},
   on_the_way |-> {"delivered", "failed", "cancelled"},
   delivered |-> {}, cancelled |-> {}, failed |-> {}]

Statuses == DOMAIN AllowedNext
Terminal == {"delivered", "cancelled", "failed"}

NoRow == [status |-> "none"]
Idle == [pc |-> "idle"]

\* deadline is assignment_expires_at: NULL, in the future or in the past;
\* accepted and picked are accepted_at and picked_up_at being set.
Row == [status : Statuses, driver : Drivers \cup {NoDriver},
        deadline : {"none", "running", "over"}, attempted : SUBSET Drivers,
        accepted : BOOLEAN, picked : BOOLEAN]

\* A handler at the statement pc, with what it read for it: the driver it is
\* about, the attempted_driver_ids of its snapshot, the status to write.
Task == [pc : {"find", "create", "pick", "assign", "busy", "free", "requeue",
               "attempts", "release", "reassign", "hire", "write"},
         order : OrderIds, driver : Drivers \cup {NoDriver},
         attempted : SUBSET Drivers, next : Statuses \cup {"none"}]

TypeOK ==
  /\ deliveries \in [OrderIds -> Row \cup {NoRow}]
  /\ online \in [Drivers -> BOOLEAN]
  /\ available \in [Drivers -> BOOLEAN]
  /\ due \in [OrderIds -> 0..MaxConfirms]
  /\ tasks \in [Tasks -> Task \cup {Idle}]
  /\ earnings \subseteq [order : OrderIds, driver : Drivers \cup {NoDriver}]

Init ==
  /\ deliveries = [o \in OrderIds |-> NoRow]
  /\ online = [d \in Drivers |-> FALSE]
  /\ available = [d \in Drivers |-> FALSE]
  /\ due = [o \in OrderIds |-> MaxConfirms]
  /\ tasks = [t \in Tasks |-> Idle]
  /\ earnings = {}

-----------------------------------------------------------------------------
Start(t, pc, o, d, att, next) ==
  /\ tasks[t] = Idle
  /\ tasks' = [tasks EXCEPT ![t] = [pc |-> pc, order |-> o, driver |-> d,
                                    attempted |-> att, next |-> next]]

At(t, pc) == tasks[t].pc = pc
Goto(t, pc) == tasks' = [tasks EXCEPT ![t].pc = pc]
End(t) == tasks' = [tasks EXCEPT ![t] = Idle]

\* UPDATE delivery.deliveries ... WHERE id = o's delivery.
Write(o, row) == deliveries' = [deliveries EXCEPT ![o] = row]

NewRow(d) ==
  [status |-> IF d = NoDriver THEN "pending_assignment" ELSE "assigned",
   driver |-> d, deadline |-> "none", attempted |-> {},
   accepted |-> FALSE, picked |-> FALSE]

\* upsertDriverAvailability({ is_available: b }).  The INSERT turns the omitted
\* is_online into FALSE before ON CONFLICT reads EXCLUDED.is_online.
SetAvailable(d, b) ==
  /\ available' = [available EXCEPT ![d] = b]
  /\ online' = [online EXCEPT ![d] = FALSE]

-----------------------------------------------------------------------------
\* PATCH /drivers/:driverId/availability: an omitted flag becomes FALSE.
SetDriverAvailability(d, on, av) ==
  /\ online' = [online EXCEPT ![d] = on]
  /\ available' = [available EXCEPT ![d] = av]
  /\ UNCHANGED <<deliveries, due, tasks, earnings>>

\* POST /:id/location by the driver of the delivery: both flags are omitted.
UpdateDriverLocation(o, d) ==
  /\ deliveries[o] # NoRow
  /\ deliveries[o].driver = d
  /\ SetAvailable(d, FALSE)
  /\ UNCHANGED <<deliveries, due, tasks, earnings>>

\* 45 seconds pass.
Expire(o) ==
  /\ deliveries[o] # NoRow
  /\ deliveries[o].deadline = "running"
  /\ deliveries' = [deliveries EXCEPT ![o].deadline = "over"]
  /\ UNCHANGED <<online, available, due, tasks, earnings>>

\* POST /deliveries/assignments/auto reads the order, which is confirmed.
AutoAssignForOrder(t, o) ==
  /\ due[o] > 0
  /\ due' = [due EXCEPT ![o] = @ - 1]
  /\ Start(t, "find", o, NoDriver, {}, "none")
  /\ UNCHANGED <<deliveries, online, available, earnings>>

FindDelivery(t) ==
  LET o == tasks[t].order IN
    /\ At(t, "find")
    /\ tasks' = [tasks EXCEPT ![t].pc = IF deliveries[o] = NoRow THEN "create" ELSE "pick",
                              ![t].attempted = IF deliveries[o] = NoRow THEN {}
                                               ELSE deliveries[o].attempted]
    /\ UNCHANGED <<deliveries, online, available, due, earnings>>

\* Delivery.create() without a driver: the INSERT, which throws for a second
\* delivery of an order.
CreateUnassigned(t) ==
  LET o == tasks[t].order IN
    /\ At(t, "create")
    /\ IF deliveries[o] = NoRow
         THEN Write(o, NewRow(NoDriver)) /\ Goto(t, "pick")
         ELSE UNCHANGED deliveries /\ End(t)
    /\ UNCHANGED <<online, available, due, earnings>>

\* pickAvailableDriver() reads who is online and available.
Eligible(att) == {d \in Drivers \ att : online[d] /\ available[d]}

PickDriver(t) ==
  LET free == Eligible(tasks[t].attempted) IN
    /\ At(t, "pick")
    /\ IF free = {} THEN End(t)
       ELSE \E d \in free :
              tasks' = [tasks EXCEPT ![t].pc = "assign", ![t].driver = d]
    /\ UNCHANGED <<deliveries, online, available, due, earnings>>

\* Delivery.setAssignment()
SetAssignment(t) ==
  LET k == tasks[t] IN
    /\ At(t, "assign")
    /\ Write(k.order, [deliveries[k.order] EXCEPT
                         !.status = "assigned", !.driver = k.driver,
                         !.deadline = "running", !.attempted = k.attempted \cup {k.driver}])
    /\ Goto(t, "busy")
    /\ UNCHANGED <<online, available, due, earnings>>

\* The last statement of every assignment: the driver is not available.
MarkBusy(t) ==
  /\ At(t, "busy")
  /\ SetAvailable(tasks[t].driver, FALSE)
  /\ End(t)
  /\ UNCHANGED <<deliveries, due, earnings>>

\* Fault: only an offer that another driver could take over is swept.
SweepIfReplaceable(t, o) ==
  /\ deliveries[o].status = "assigned"
  /\ ~deliveries[o].accepted
  /\ deliveries[o].deadline = "over"
  /\ Eligible(deliveries[o].attempted) # {}
  /\ Start(t, "free", o, deliveries[o].driver, deliveries[o].attempted, "none")
  /\ UNCHANGED <<deliveries, online, available, due, earnings>>

\* sweepExpiredAssignments(), for one row of its list.
Sweep(t, o) ==
  /\ deliveries[o].status = "assigned"
  /\ ~deliveries[o].accepted
  /\ deliveries[o].deadline = "over"
  /\ Start(t, "free", o, deliveries[o].driver, deliveries[o].attempted, "none")
  /\ UNCHANGED <<deliveries, online, available, due, earnings>>

FreePrevious(t) ==
  /\ At(t, "free")
  /\ SetAvailable(tasks[t].driver, TRUE)
  /\ Goto(t, "requeue")
  /\ UNCHANGED <<deliveries, due, earnings>>

\* markPendingAssignment(): two UPDATEs, the second followed by a read.
Requeue(t) ==
  LET o == tasks[t].order IN
    /\ At(t, "requeue")
    /\ Write(o, [deliveries[o] EXCEPT !.status = "pending_assignment",
                                      !.driver = NoDriver, !.deadline = "none"])
    /\ Goto(t, "attempts")
    /\ UNCHANGED <<online, available, due, earnings>>

\* A sweep reads the row again and offers it to another driver, a declined
\* offer releases its driver.
WriteAttempts(t) ==
  LET k == tasks[t] IN
    /\ At(t, "attempts")
    /\ deliveries' = [deliveries EXCEPT ![k.order].attempted = k.attempted]
    /\ Goto(t, IF k.next = "pending_assignment" THEN "release" ELSE "find")
    /\ UNCHANGED <<online, available, due, earnings>>

\* PATCH /:id/status by the driver of an offer: it is declined.
Decline(t, o) ==
  LET row == deliveries[o] IN
    /\ row.status = "assigned"
    /\ row.driver # NoDriver
    /\ Start(t, "requeue", o, row.driver, row.attempted \cup {row.driver},
             "pending_assignment")
    /\ UNCHANGED <<deliveries, online, available, due, earnings>>

\* POST /assignments by an admin: an offer changes hands, or a first delivery
\* is made for the driver.
AssignDriver(t, o, d) ==
  /\ \/ deliveries[o] = NoRow /\ Start(t, "hire", o, d, {}, "none")
     \/ /\ deliveries[o].status \in {"pending_assignment", "assigned"}
        /\ Start(t, "reassign", o, d, {}, "none")
  /\ UNCHANGED <<deliveries, online, available, due, earnings>>

\* Delivery.updateDriverUserId()
UpdateDriverUserId(t) ==
  LET k == tasks[t] IN
    /\ At(t, "reassign")
    /\ deliveries' = [deliveries EXCEPT ![k.order].driver = k.driver]
    /\ Goto(t, "busy")
    /\ UNCHANGED <<online, available, due, earnings>>

CreateAssigned(t) ==
  LET k == tasks[t] IN
    /\ At(t, "hire")
    /\ IF deliveries[k.order] = NoRow
         THEN Write(k.order, NewRow(k.driver)) /\ Goto(t, "busy")
         ELSE UNCHANGED deliveries /\ End(t)
    /\ UNCHANGED <<online, available, due, earnings>>

\* Fault: an admin may write any status.
UpdateUnchecked(t, o, next, by) ==
  /\ deliveries[o] # NoRow
  /\ by # NoDriver =>
       by = deliveries[o].driver /\ next \in AllowedNext[deliveries[o].status] \ {"pending_assignment"}
  /\ Start(t, "write", o, NoDriver, {}, next)
  /\ UNCHANGED <<deliveries, online, available, due, earnings>>

\* PATCH /:id/status otherwise: the row is read and the transition checked.
\* A driver has a delivery of his own; an admin any, so by = NoDriver.
UpdateDeliveryStatus(t, o, next, by) ==
  /\ deliveries[o] # NoRow
  /\ next \in AllowedNext[deliveries[o].status]
  /\ by # NoDriver => by = deliveries[o].driver /\ next # "pending_assignment"
  /\ Start(t, "write", o, NoDriver, {}, next)
  /\ UNCHANGED <<deliveries, online, available, due, earnings>>

\* The end of a delivery releases the driver of the row that was written.
AfterStatus(t, row, next) ==
  IF next \in Terminal /\ row.driver # NoDriver
    THEN tasks' = [tasks EXCEPT ![t].pc = "release", ![t].driver = row.driver]
    ELSE End(t)

EarnedByNobody(o, row, next) ==
  earnings' = IF next = "delivered" /\ row.driver = NoDriver
                THEN earnings \cup {[order |-> o, driver |-> NoDriver]} ELSE earnings

\* Fault: the pick-up is not stamped.
WriteStatusUnstamped(t) ==
  LET o == tasks[t].order
      next == tasks[t].next IN
    /\ At(t, "write")
    /\ Write(o, [deliveries[o] EXCEPT !.status = next,
                                     !.accepted = @ \/ next = "accepted_by_driver"])
    /\ AfterStatus(t, deliveries[o], next)
    /\ EarnedByNobody(o, deliveries[o], next)
    /\ UNCHANGED <<online, available, due>>

\* Delivery.updateStatus(), and for a delivered order the start of
\* settleDeliveryEarnings(), which nobody waits for.
WriteStatus(t) ==
  LET o == tasks[t].order
      next == tasks[t].next
      row == deliveries[o] IN
    /\ At(t, "write")
    /\ Write(o, [row EXCEPT !.status = next,
                            !.accepted = @ \/ next = "accepted_by_driver",
                            !.picked = @ \/ next = "picked_up"])
    /\ AfterStatus(t, row, next)
    /\ EarnedByNobody(o, row, next)
    /\ UNCHANGED <<online, available, due>>

\* The driver is available again; only then are the earnings settled.
Release(t) ==
  LET k == tasks[t] IN
    /\ At(t, "release")
    /\ SetAvailable(k.driver, TRUE)
    /\ earnings' = IF k.next = "delivered"
                     THEN earnings \cup {[order |-> k.order, driver |-> k.driver]}
                     ELSE earnings
    /\ End(t)
    /\ UNCHANGED <<deliveries, due>>

\* A statement throws or the process dies.
Stop(t) ==
  /\ tasks[t] # Idle
  /\ End(t)
  /\ UNCHANGED <<deliveries, online, available, due, earnings>>

-----------------------------------------------------------------------------
Work(t) ==
  \/ FindDelivery(t) \/ CreateUnassigned(t) \/ PickDriver(t) \/ SetAssignment(t)
  \/ MarkBusy(t) \/ FreePrevious(t) \/ Requeue(t) \/ WriteAttempts(t)
  \/ UpdateDriverUserId(t) \/ CreateAssigned(t) \/ WriteStatus(t) \/ Release(t)

Next ==
  \/ \E t \in Tasks, o \in OrderIds :
       \/ AutoAssignForOrder(t, o)
       \/ Sweep(t, o)
       \/ Decline(t, o)
       \/ \E d \in Drivers : AssignDriver(t, o, d)
       \/ \E next \in Statuses, by \in Drivers \cup {NoDriver} :
            UpdateDeliveryStatus(t, o, next, by)
  \/ \E t \in Tasks : Work(t) \/ Stop(t)
  \/ \E o \in OrderIds : Expire(o)
  \/ \E d \in Drivers :
       \/ \E on, av \in BOOLEAN : SetDriverAvailability(d, on, av)
       \/ \E o \in OrderIds : UpdateDriverLocation(o, d)

Spec == Init /\ [][Next]_vars

\* Time passes, a started handler takes its next step unless it stops, and the
\* interval timer sweeps again and again: some sweep of an expired offer gets
\* as far as its UPDATE.
SweepsFairly(o) ==
  /\ WF_vars(Expire(o))
  /\ SF_vars(\E t \in Tasks : Sweep(t, o))
  /\ SF_vars(\E t \in Tasks : FreePrevious(t) /\ tasks[t].order = o)
  /\ SF_vars(\E t \in Tasks : Requeue(t) /\ tasks[t].order = o)

FairSpec ==
  /\ Spec
  /\ \A t \in Tasks : WF_vars(Work(t))
  /\ \A o \in OrderIds : SweepsFairly(o)

-----------------------------------------------------------------------------
AfterAcceptance == {"accepted_by_driver", "arrived_at_pickup", "picked_up", "on_the_way",
                    "delivered"}
AfterPickUp == {"picked_up", "on_the_way", "delivered"}

\* Whatever handlers overlap, a delivery reaches the stations after its
\* acceptance only through it, those after the pick-up only through the
\* pick-up, and nobody earns on one that was not picked up
\* (deliveryController.ts:7-17 and 835).
StationsAreVisited ==
  /\ \A o \in OrderIds :
       /\ deliveries[o].status \in AfterAcceptance => deliveries[o].accepted
       /\ deliveries[o].status \in AfterPickUp => deliveries[o].picked
  /\ \A e \in earnings : deliveries[e.order].accepted /\ deliveries[e.order].picked

\* A row in order: its stations are stamped and its deadline is somebody's.
RowFits(r) ==
  /\ r.status \in AfterAcceptance => r.accepted
  /\ r.status \in AfterPickUp => r.picked
  /\ r.deadline # "none" => r.driver # NoDriver

\* What the handler k remembers of its row r still holds at its next statement,
\* whatever others wrote: the row exists, an acceptance or a pick-up it relies
\* on is stamped, and the driver it frees or marks is one.
TaskFits(k, r) ==
  /\ k.pc \notin {"find", "create", "hire"} => r # NoRow
  /\ k.pc \in {"assign", "busy", "free", "requeue", "attempts", "release", "reassign", "hire"}
       => k.driver # NoDriver
  /\ k.pc = "write" => k.next # "none"
  /\ k.pc \in {"write", "release"} =>
       /\ k.next \in AfterAcceptance \ {"accepted_by_driver"} => r.accepted
       /\ k.next \in AfterPickUp \ {"picked_up"} => r.picked

\* The inductive invariant: every row is in order, every handler fits its row,
\* and earnings are for rows with both stamps (Delivery.ts:149-191, 257-294).
DeliveryInv ==
  /\ TypeOK
  /\ \A o \in OrderIds : deliveries[o] # NoRow => RowFits(deliveries[o])
  /\ \A t \in Tasks : tasks[t] # Idle => TaskFits(tasks[t], deliveries[tasks[t].order])
  /\ \A e \in earnings : /\ deliveries[e.order] # NoRow
                         /\ deliveries[e.order].accepted
                         /\ deliveries[e.order].picked

\* An offer nobody answered comes to an end: while it is not accepted, a
\* delivery with a deadline does not stay assigned for ever, although sweeps
\* overlap with each other and with every handler and may stop midway
\* (20260317000014_delivery_auto_assignment.sql:1, "timeout/retry").
Offered(o) ==
  deliveries[o].status = "assigned" /\ ~deliveries[o].accepted
    /\ deliveries[o].deadline # "none"

OffersEnd == \A o \in OrderIds : Offered(o) ~> ~Offered(o)

\* An accepted delivery keeps its driver (deliveryController.ts:509, "Cannot
\* reassign -- driver has already ...").
AcceptedKeepsDriver ==
  [][\A o \in OrderIds :
       deliveries[o].status \in {"accepted_by_driver", "arrived_at_pickup", "picked_up",
                                 "on_the_way"}
         => deliveries'[o].driver = deliveries[o].driver]_vars

\* A delivery that waits for a driver does not wait for ever while a driver it
\* has not been offered to is online and available (deliveryController.ts:796,
\* "re-queued for reassignment").
Waiting(o) ==
  /\ deliveries[o].status = "pending_assignment"
  /\ Eligible(deliveries[o].attempted) # {}

RequeuedIsReassigned == \A o \in OrderIds : []<>~Waiting(o)
=============================================================================
