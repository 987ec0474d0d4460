--------------------------- MODULE DeliveryProofs ---------------------------
(***************************************************************************)
(* The inductive invariant of Delivery for any number of orders, drivers   *)
(* and concurrent handlers.  However a row is written, it stays in order   *)
(* and loses no stamp (Kept); so what a handler remembers of a row         *)
(* survives what the others write, and each action answers for its own     *)
(* handler alone (StepKeeps).                                              *)
(***************************************************************************)
EXTENDS Delivery, TLAPS

\* The row r may become s: a row stays, and so do its stamps.
Grows(r, s) ==
  r # NoRow => /\ s # NoRow
               /\ r.accepted => s.accepted
               /\ r.picked => s.picked

Kept ==
  /\ deliveries' \in [OrderIds -> Row \cup {NoRow}]
  /\ \A o \in OrderIds : /\ deliveries'[o] # NoRow => RowFits(deliveries'[o])
                         /\ Grows(deliveries[o], deliveries'[o])

\* Whoever earns, has earned already or does on a row with both stamps.
Paid ==
  /\ earnings' \subseteq [order : OrderIds, driver : Drivers \cup {NoDriver}]
  /\ \A e \in earnings' :
       \/ e \in earnings
       \/ /\ deliveries'[e.order] # NoRow
          /\ deliveries'[e.order].accepted
          /\ deliveries'[e.order].picked

\* The other tables are of their types.
TablesOK ==
  /\ online \in [Drivers -> BOOLEAN]
  /\ available \in [Drivers -> BOOLEAN]
  /\ due \in [OrderIds -> 0..MaxConfirms]

-----------------------------------------------------------------------------
\* The statuses of deliveryController.ts:7-17, spelt out.
LEMMA StatusSet ==
  Statuses = {"pending_assignment", "assigned", "accepted_by_driver", "arrived_at_pickup",
              "picked_up", "on_the_way", "delivered", "cancelled", "failed"}
BY DEF Statuses, AllowedNext

\* What the table lets a status become, as far as the stamps depend on it.
LEMMA StationOrder ==
  ASSUME NEW s \in Statuses, NEW n \in AllowedNext[s]
  PROVE  /\ n \in Statuses
         /\ n \in AfterAcceptance \ {"accepted_by_driver"} => s \in AfterAcceptance
         /\ n \in AfterPickUp \ {"picked_up"} => s \in AfterPickUp
BY StatusSet DEF AllowedNext, AfterAcceptance, AfterPickUp

\* A row is not the absence of one.
LEMMA RowIsThere == ASSUME NEW r \in Row PROVE r # NoRow
BY StatusSet DEF Row, NoRow

\* Writing no row keeps them all.
LEMMA KeptSame ==
  ASSUME DeliveryInv, UNCHANGED deliveries
  PROVE  Kept
BY DEF DeliveryInv, TypeOK, Kept, Grows

\* Writing one row well keeps them all.
LEMMA KeptOne ==
  ASSUME DeliveryInv, NEW o \in OrderIds, NEW r \in Row, RowFits(r),
         Grows(deliveries[o], r), deliveries' = [deliveries EXCEPT ![o] = r]
  PROVE  Kept
<1>1. r # NoRow
  BY RowIsThere
<1>2. deliveries' \in [OrderIds -> Row \cup {NoRow}]
  BY DEF DeliveryInv, TypeOK
<1>3. ASSUME NEW p \in OrderIds
      PROVE  /\ deliveries'[p] # NoRow => RowFits(deliveries'[p])
             /\ Grows(deliveries[p], deliveries'[p])
  <2>1. CASE p = o
    BY <2>1 DEF DeliveryInv, TypeOK
  <2>2. CASE p # o
    BY <2>2 DEF DeliveryInv, TypeOK, Grows
  <2> QED BY <2>1, <2>2
<1> QED BY <1>2, <1>3 DEF Kept

\* Earnings nobody adds to stay earned.
LEMMA PaidSame ==
  ASSUME DeliveryInv, UNCHANGED earnings
  PROVE  Paid
BY DEF DeliveryInv, TypeOK, Paid

\* Earnings of a row with both stamps may be added.
LEMMA PaidOne ==
  ASSUME DeliveryInv, NEW o \in OrderIds, NEW d \in Drivers \cup {NoDriver},
         deliveries'[o] # NoRow, deliveries'[o].accepted, deliveries'[o].picked,
         earnings' = earnings \cup {[order |-> o, driver |-> d]}
  PROVE  Paid
BY DEF DeliveryInv, TypeOK, Paid

\* A handler that fits its row still fits the row it has grown into.
LEMMA FitsGrown ==
  ASSUME NEW k \in Task, NEW r, NEW s, TaskFits(k, r), Grows(r, s),
         k.pc \in {"find", "create", "hire"} \/ r # NoRow
  PROVE  TaskFits(k, s)
BY DEF TaskFits, Grows

\* What the invariant says of the task of a handler.
LEMMA TaskThere ==
  ASSUME DeliveryInv, NEW t \in Tasks, tasks[t] # Idle
  PROVE  /\ tasks[t] \in Task
         /\ tasks[t].order \in OrderIds
         /\ tasks[t].driver \in Drivers \cup {NoDriver}
         /\ tasks[t].attempted \subseteq Drivers
         /\ TaskFits(tasks[t], deliveries[tasks[t].order])
BY DEF DeliveryInv, TypeOK, Task

\* And of a row that is there.
LEMMA RowThere ==
  ASSUME DeliveryInv, NEW o \in OrderIds, deliveries[o] # NoRow
  PROVE  deliveries[o] \in Row /\ RowFits(deliveries[o])
BY DEF DeliveryInv, TypeOK

\* A step in which rows are kept, earnings are earned and every handler whose
\* task changes fits the row it goes on with keeps the invariant.
LEMMA StepKeeps ==
  ASSUME DeliveryInv, Kept, Paid, TablesOK', tasks' \in [Tasks -> Task \cup {Idle}],
         \A t \in Tasks : \/ tasks'[t] = tasks[t]
                          \/ tasks'[t] = Idle
                          \/ TaskFits(tasks'[t], deliveries'[tasks'[t].order])
  PROVE  DeliveryInv'
<1>1. TypeOK'
  BY DEF TypeOK, TablesOK, Kept, Paid
<1>2. \A o \in OrderIds : deliveries'[o] # NoRow => RowFits(deliveries'[o])
  BY DEF Kept
<1>3. ASSUME NEW t \in Tasks, tasks'[t] # Idle
      PROVE  TaskFits(tasks'[t], deliveries'[tasks'[t].order])
  <2>1. CASE tasks'[t] = tasks[t]
    <3> DEFINE k == tasks[t]
    <3>1. k \in Task /\ TaskFits(k, deliveries[k.order])
      BY <1>3, <2>1 DEF DeliveryInv, TypeOK
    <3>2. k.order \in OrderIds
      BY <3>1 DEF Task
    <3>3. Grows(deliveries[k.order], deliveries'[k.order])
      BY <3>2 DEF Kept
    <3>4. k.pc \in {"find", "create", "hire"} \/ deliveries[k.order] # NoRow
      BY <3>1 DEF TaskFits
    <3>5. TaskFits(k, deliveries'[k.order])
      BY <3>1, <3>3, <3>4, FitsGrown
    <3> QED BY <2>1, <3>5
  <2> QED BY <1>3, <2>1
<1>4. ASSUME NEW e \in earnings'
      PROVE  /\ deliveries'[e.order] # NoRow
             /\ deliveries'[e.order].accepted
             /\ deliveries'[e.order].picked
  <2>1. CASE e \in earnings
    <3>1. e.order \in OrderIds
      BY <2>1 DEF DeliveryInv, TypeOK
    <3>2. Grows(deliveries[e.order], deliveries'[e.order])
      BY <3>1 DEF Kept
    <3> QED BY <2>1, <3>2 DEF DeliveryInv, Grows
  <2> QED BY <1>4, <2>1 DEF Paid
<1> QED BY <1>1, <1>2, <1>3, <1>4 DEF DeliveryInv

\* One handler moves on to a task k that fits its row, or ends.
LEMMA OneStep ==
  ASSUME DeliveryInv, Kept, Paid, TablesOK', NEW t \in Tasks, NEW k \in Task \cup {Idle},
         tasks' = [tasks EXCEPT ![t] = k],
         k # Idle => TaskFits(k, deliveries'[k.order])
  PROVE  DeliveryInv'
<1>1. tasks' \in [Tasks -> Task \cup {Idle}]
  BY DEF DeliveryInv, TypeOK
<1>2. ASSUME NEW u \in Tasks
      PROVE  \/ tasks'[u] = tasks[u]
             \/ tasks'[u] = Idle
             \/ TaskFits(tasks'[u], deliveries'[tasks'[u].order])
  BY DEF DeliveryInv, TypeOK
<1> QED BY <1>1, <1>2, StepKeeps

-----------------------------------------------------------------------------
\* The statements that write no delivery.
LEMMA AvailabilityKeeps ==
  ASSUME DeliveryInv, NEW d \in Drivers,
         \/ \E on, av \in BOOLEAN : SetDriverAvailability(d, on, av)
         \/ \E o \in OrderIds : UpdateDriverLocation(o, d)
  PROVE  DeliveryInv'
<1>1. UNCHANGED <<deliveries, tasks, earnings>> /\ TablesOK'
  BY DEF SetDriverAvailability, UpdateDriverLocation, SetAvailable, DeliveryInv, TypeOK, TablesOK
<1>2. Kept /\ Paid
  BY <1>1, KeptSame, PaidSame
<1> QED BY <1>1, <1>2, StepKeeps DEF DeliveryInv, TypeOK

\* The beginning of a handler: what it read is what its task remembers.
LEMMA StartKeeps ==
  ASSUME DeliveryInv, NEW t \in Tasks, NEW k \in Task, TaskFits(k, deliveries[k.order]),
         tasks' = [tasks EXCEPT ![t] = k], TablesOK', UNCHANGED <<deliveries, earnings>>
  PROVE  DeliveryInv'
<1>1. Kept /\ Paid
  BY KeptSame, PaidSame
<1> QED BY <1>1, OneStep

LEMMA EndKeeps ==
  ASSUME DeliveryInv, NEW t \in Tasks, End(t), TablesOK', UNCHANGED <<deliveries, earnings>>
  PROVE  DeliveryInv'
<1>1. Kept /\ Paid
  BY KeptSame, PaidSame
<1> QED BY <1>1, OneStep DEF End

\* The beginnings of the handlers and of a sweep.
LEMMA AutoAssignKeeps ==
  ASSUME DeliveryInv, NEW t \in Tasks, NEW o \in OrderIds, AutoAssignForOrder(t, o)
  PROVE  DeliveryInv'
<1> DEFINE k == [pc |-> "find", order |-> o, driver |-> NoDriver, attempted |-> {},
                 next |-> "none"]
<1>1. k \in Task /\ TaskFits(k, deliveries[o])
  BY DEF Task, TaskFits
<1>2. TablesOK' /\ UNCHANGED <<deliveries, earnings>>
  BY DeliveryAssumption DEF AutoAssignForOrder, DeliveryInv, TypeOK, TablesOK
<1>3. tasks' = [tasks EXCEPT ![t] = k]
  BY DEF AutoAssignForOrder, Start
<1> QED BY <1>1, <1>2, <1>3, StartKeeps

LEMMA SweepKeeps ==
  ASSUME DeliveryInv, NEW t \in Tasks, NEW o \in OrderIds, Sweep(t, o)
  PROVE  DeliveryInv'
<1> DEFINE r == deliveries[o]
           k == [pc |-> "free", order |-> o, driver |-> r.driver,
                 attempted |-> r.attempted, next |-> "none"]
<1>1. r # NoRow
  BY DEF Sweep, NoRow
<1>2. r \in Row /\ RowFits(r)
  BY <1>1, RowThere
<1>3. r.driver \in Drivers \cup {NoDriver} /\ r.attempted \subseteq Drivers
  BY <1>2 DEF Row
<1>4. r.driver # NoDriver
  BY <1>2 DEF RowFits, Sweep
<1>5. k \in Task
  BY <1>3 DEF Task
<1>6. TaskFits(k, r)
  BY <1>1, <1>4 DEF TaskFits
<1>7. TablesOK' /\ UNCHANGED <<deliveries, earnings>>
  BY DEF Sweep, DeliveryInv, TypeOK, TablesOK
<1>8. tasks' = [tasks EXCEPT ![t] = k]
  BY DEF Sweep, Start
<1> QED BY <1>5, <1>6, <1>7, <1>8, StartKeeps

LEMMA DeclineKeeps ==
  ASSUME DeliveryInv, NEW t \in Tasks, NEW o \in OrderIds, Decline(t, o)
  PROVE  DeliveryInv'
<1> DEFINE r == deliveries[o]
           k == [pc |-> "requeue", order |-> o, driver |-> r.driver,
                 attempted |-> r.attempted \cup {r.driver}, next |-> "pending_assignment"]
<1>1. r # NoRow /\ r.driver # NoDriver
  BY DEF Decline, NoRow
<1>2. r.driver \in Drivers /\ r.attempted \subseteq Drivers
  BY <1>1, RowThere DEF Row
<1>3. k \in Task
  BY <1>2, StatusSet DEF Task
<1>4. TaskFits(k, r)
  BY <1>1 DEF TaskFits
<1>5. TablesOK' /\ UNCHANGED <<deliveries, earnings>>
  BY DEF Decline, DeliveryInv, TypeOK, TablesOK
<1>6. tasks' = [tasks EXCEPT ![t] = k]
  BY DEF Decline, Start
<1> QED BY <1>3, <1>4, <1>5, <1>6, StartKeeps

LEMMA AssignDriverKeeps ==
  ASSUME DeliveryInv, NEW t \in Tasks, NEW o \in OrderIds, NEW d \in Drivers,
         AssignDriver(t, o, d)
  PROVE  DeliveryInv'
<1> DEFINE k(pc) == [pc |-> pc, order |-> o, driver |-> d, attempted |-> {}, next |-> "none"]
<1>1. d # NoDriver
  BY DeliveryAssumption
<1>2. TablesOK' /\ UNCHANGED <<deliveries, earnings>>
  BY DEF AssignDriver, DeliveryInv, TypeOK, TablesOK
<1>3. CASE Start(t, "hire", o, d, {}, "none")
  <2>1. k("hire") \in Task /\ TaskFits(k("hire"), deliveries[o])
    BY <1>1 DEF Task, TaskFits
  <2>2. tasks' = [tasks EXCEPT ![t] = k("hire")]
    BY <1>3 DEF Start
  <2> QED BY <1>2, <2>1, <2>2, StartKeeps
<1>4. CASE /\ deliveries[o].status \in {"pending_assignment", "assigned"}
           /\ Start(t, "reassign", o, d, {}, "none")
  <2>1. k("reassign") \in Task /\ TaskFits(k("reassign"), deliveries[o])
    BY <1>1, <1>4 DEF Task, TaskFits, NoRow
  <2>2. tasks' = [tasks EXCEPT ![t] = k("reassign")]
    BY <1>4 DEF Start
  <2> QED BY <1>2, <2>1, <2>2, StartKeeps
<1> QED BY <1>3, <1>4 DEF AssignDriver

\* An update read a status from which the table leads to the next one.
LEMMA UpdateKeeps ==
  ASSUME DeliveryInv, NEW t \in Tasks, NEW o \in OrderIds, NEW next \in Statuses,
         NEW by \in Drivers \cup {NoDriver}, UpdateDeliveryStatus(t, o, next, by)
  PROVE  DeliveryInv'
<1> DEFINE r == deliveries[o]
           k == [pc |-> "write", order |-> o, driver |-> NoDriver, attempted |-> {},
                 next |-> next]
<1>1. r # NoRow /\ r \in Row /\ RowFits(r) /\ next \in AllowedNext[r.status]
  BY RowThere DEF UpdateDeliveryStatus
<1>2. r.status \in Statuses
  BY <1>1 DEF Row
<1>3. /\ next \in AfterAcceptance \ {"accepted_by_driver"} => r.accepted
      /\ next \in AfterPickUp \ {"picked_up"} => r.picked
  BY <1>1, <1>2, StationOrder DEF RowFits
<1>4. k \in Task
  BY DEF Task
<1>5. next # "none"
  BY StatusSet
<1>6. TaskFits(k, r)
  BY <1>1, <1>3, <1>5 DEF TaskFits
<1>7. TablesOK' /\ UNCHANGED <<deliveries, earnings>>
  BY DEF UpdateDeliveryStatus, DeliveryInv, TypeOK, TablesOK
<1>8. tasks' = [tasks EXCEPT ![t] = k]
  BY DEF UpdateDeliveryStatus, Start
<1> QED BY <1>4, <1>6, <1>7, <1>8, StartKeeps

-----------------------------------------------------------------------------
\* A handler that goes on with the statement pc, and only that.
LEMMA GotoTask ==
  ASSUME DeliveryInv, NEW t \in Tasks, NEW pc, Goto(t, pc), tasks[t] # Idle,
         [tasks[t] EXCEPT !.pc = pc] \in Task, Kept, Paid, TablesOK',
         TaskFits([tasks[t] EXCEPT !.pc = pc], deliveries'[tasks[t].order])
  PROVE  DeliveryInv'
<1> DEFINE k == [tasks[t] EXCEPT !.pc = pc]
<1>1. tasks' = [tasks EXCEPT ![t] = k]
  BY DEF Goto
<1>2. k.order = tasks[t].order
  BY TaskThere DEF Task
<1> QED BY <1>1, <1>2, OneStep

\* Statements that read: which driver, whether there is a delivery.
LEMMA FindKeeps ==
  ASSUME DeliveryInv, NEW t \in Tasks, FindDelivery(t)
  PROVE  DeliveryInv'
<1> DEFINE r == deliveries[tasks[t].order]
           k == [tasks[t] EXCEPT !.pc = IF r = NoRow THEN "create" ELSE "pick",
                                 !.attempted = IF r = NoRow THEN {} ELSE r.attempted]
<1>1. tasks[t] # Idle
  BY DEF FindDelivery, At, Idle
<1>2. r # NoRow => r.attempted \subseteq Drivers
  BY <1>1, TaskThere, RowThere DEF Row
<1>3. k \in Task /\ k.order = tasks[t].order
  BY <1>1, <1>2, TaskThere DEF Task
<1>4. TaskFits(k, r)
  BY <1>1, TaskThere DEF TaskFits, Task
<1>5. tasks' = [tasks EXCEPT ![t] = k]
  BY <1>1, TaskThere DEF FindDelivery, DeliveryInv, TypeOK, Task
<1>6. TablesOK' /\ UNCHANGED <<deliveries, earnings>>
  BY DEF FindDelivery, DeliveryInv, TypeOK, TablesOK
<1> QED BY <1>3, <1>4, <1>5, <1>6, StartKeeps

LEMMA PickKeeps ==
  ASSUME DeliveryInv, NEW t \in Tasks, PickDriver(t)
  PROVE  DeliveryInv'
<1>1. TablesOK' /\ UNCHANGED <<deliveries, earnings>>
  BY DEF PickDriver, DeliveryInv, TypeOK, TablesOK
<1>2. CASE End(t)
  BY <1>1, <1>2, EndKeeps
<1>3. CASE \E d \in Drivers : tasks' = [tasks EXCEPT ![t].pc = "assign", ![t].driver = d]
  <2>1. PICK d \in Drivers : tasks' = [tasks EXCEPT ![t].pc = "assign", ![t].driver = d]
    BY <1>3
  <2> DEFINE k == [tasks[t] EXCEPT !.pc = "assign", !.driver = d]
  <2>2. tasks[t] # Idle /\ tasks[t].pc = "pick"
    BY DEF PickDriver, At, Idle
  <2>3. k \in Task /\ k.order = tasks[t].order
    BY <2>2, TaskThere DEF Task
  <2>4. TaskFits(k, deliveries[k.order])
    BY <2>2, <2>3, TaskThere, DeliveryAssumption DEF TaskFits, Task
  <2>5. tasks' = [tasks EXCEPT ![t] = k]
    BY <2>1, <2>2, TaskThere DEF DeliveryInv, TypeOK, Task
  <2> QED BY <1>1, <2>3, <2>4, <2>5, StartKeeps
<1> QED BY <1>2, <1>3 DEF PickDriver, Eligible

-----------------------------------------------------------------------------
\* The INSERTs: the row of an order that has none.
LEMMA NewRowFits ==
  ASSUME NEW d \in Drivers \cup {NoDriver}
  PROVE  NewRow(d) \in Row /\ RowFits(NewRow(d))
BY StatusSet DEF NewRow, Row, RowFits, AfterAcceptance, AfterPickUp

LEMMA CreateKeeps ==
  ASSUME DeliveryInv, NEW t \in Tasks, CreateUnassigned(t)
  PROVE  DeliveryInv'
<1> DEFINE o == tasks[t].order
<1>1. tasks[t] # Idle /\ TablesOK' /\ UNCHANGED earnings
  BY DEF CreateUnassigned, At, Idle, DeliveryInv, TypeOK, TablesOK
<1>2. CASE deliveries[o] = NoRow
  <2>1. Goto(t, "pick") /\ Write(o, NewRow(NoDriver))
    BY <1>2 DEF CreateUnassigned
  <2>2. Kept
    BY <1>1, <1>2, <2>1, TaskThere, NewRowFits, KeptOne DEF Write, Grows
  <2>3. [tasks[t] EXCEPT !.pc = "pick"] \in Task
    BY <1>1, TaskThere DEF Task
  <2>4. deliveries'[o] # NoRow
    BY <1>1, <2>1, TaskThere, NewRowFits, RowIsThere DEF Write, DeliveryInv, TypeOK
  <2>5. TaskFits([tasks[t] EXCEPT !.pc = "pick"], deliveries'[o])
    BY <1>1, <2>4, TaskThere DEF TaskFits, Task
  <2> QED BY <1>1, <2>1, <2>2, <2>3, <2>5, PaidSame, GotoTask
<1>3. CASE deliveries[o] # NoRow
  BY <1>1, <1>3, EndKeeps DEF CreateUnassigned
<1> QED BY <1>2, <1>3

LEMMA HireKeeps ==
  ASSUME DeliveryInv, NEW t \in Tasks, CreateAssigned(t)
  PROVE  DeliveryInv'
<1> DEFINE o == tasks[t].order
           d == tasks[t].driver
<1>1. tasks[t] # Idle /\ TablesOK' /\ UNCHANGED earnings
  BY DEF CreateAssigned, At, Idle, DeliveryInv, TypeOK, TablesOK
<1>2. CASE deliveries[o] = NoRow
  <2>1. Goto(t, "busy") /\ Write(o, NewRow(d)) /\ At(t, "hire")
    BY <1>2 DEF CreateAssigned
  <2>2. Kept
    BY <1>1, <1>2, <2>1, TaskThere, NewRowFits, KeptOne DEF Write, Grows
  <2>3. [tasks[t] EXCEPT !.pc = "busy"] \in Task
    BY <1>1, TaskThere DEF Task
  <2>4. deliveries'[o] # NoRow
    BY <1>1, <2>1, TaskThere, NewRowFits, RowIsThere DEF Write, DeliveryInv, TypeOK
  <2>5. TaskFits([tasks[t] EXCEPT !.pc = "busy"], deliveries'[o])
    BY <1>1, <2>1, <2>4, TaskThere DEF TaskFits, Task, At
  <2> QED BY <1>1, <2>1, <2>2, <2>3, <2>5, PaidSame, GotoTask
<1>3. CASE deliveries[o] # NoRow
  BY <1>1, <1>3, EndKeeps DEF CreateAssigned
<1> QED BY <1>2, <1>3

-----------------------------------------------------------------------------
\* The UPDATEs: each writes a row that keeps its stamps.
LEMMA ExpireKeeps ==
  ASSUME DeliveryInv, NEW o \in OrderIds, Expire(o)
  PROVE  DeliveryInv'
<1> DEFINE r == [deliveries[o] EXCEPT !.deadline = "over"]
<1>1. deliveries[o] \in Row /\ RowFits(deliveries[o]) /\ deliveries[o].deadline = "running"
  BY RowThere DEF Expire
<1>2. r \in Row /\ RowFits(r) /\ Grows(deliveries[o], r)
  BY <1>1, RowIsThere DEF Row, RowFits, Grows
<1>3. deliveries' = [deliveries EXCEPT ![o] = r]
  BY DEF Expire
<1>4. Kept
  BY <1>2, <1>3, KeptOne
<1>5. TablesOK' /\ UNCHANGED <<tasks, earnings>>
  BY DEF Expire, DeliveryInv, TypeOK, TablesOK
<1> QED BY <1>4, <1>5, PaidSame, StepKeeps DEF DeliveryInv, TypeOK

\* An UPDATE by a handler that goes on with the statement pc.
LEMMA WriteKeeps ==
  ASSUME DeliveryInv, NEW t \in Tasks, NEW pc, NEW r \in Row, tasks[t] # Idle,
         RowFits(r), Grows(deliveries[tasks[t].order], r),
         deliveries' = [deliveries EXCEPT ![tasks[t].order] = r], Goto(t, pc),
         [tasks[t] EXCEPT !.pc = pc] \in Task, TaskFits([tasks[t] EXCEPT !.pc = pc], r),
         UNCHANGED <<online, available, due, earnings>>
  PROVE  DeliveryInv'
<1>1. Kept
  BY TaskThere, KeptOne
<1>2. TablesOK'
  BY DEF DeliveryInv, TypeOK, TablesOK
<1>3. deliveries'[tasks[t].order] = r
  BY TaskThere DEF DeliveryInv, TypeOK
<1> QED BY <1>1, <1>2, <1>3, PaidSame, GotoTask

LEMMA SetAssignmentKeeps ==
  ASSUME DeliveryInv, NEW t \in Tasks, SetAssignment(t)
  PROVE  DeliveryInv'
<1> DEFINE k == tasks[t]
           r == [deliveries[k.order] EXCEPT !.status = "assigned", !.driver = k.driver,
                   !.deadline = "running", !.attempted = k.attempted \cup {k.driver}]
<1>1. k # Idle /\ k.pc = "assign"
  BY DEF SetAssignment, At, Idle
<1>2. k \in Task /\ k.driver \in Drivers /\ k.attempted \subseteq Drivers
        /\ deliveries[k.order] # NoRow
  BY <1>1, TaskThere DEF TaskFits
<1>3. deliveries[k.order] \in Row /\ RowFits(deliveries[k.order])
  BY <1>1, <1>2, TaskThere, RowThere
<1>4. r \in Row
  BY <1>2, <1>3, StatusSet DEF Row
<1>5. RowFits(r) /\ Grows(deliveries[k.order], r)
  BY <1>2, <1>3, <1>4, RowIsThere, DeliveryAssumption
     DEF Row, RowFits, Grows, AfterAcceptance, AfterPickUp
<1>6. [k EXCEPT !.pc = "busy"] \in Task
  BY <1>2 DEF Task
<1>7. TaskFits([k EXCEPT !.pc = "busy"], r)
  BY <1>2, <1>4, RowIsThere, DeliveryAssumption DEF TaskFits, Task
<1>8. /\ deliveries' = [deliveries EXCEPT ![k.order] = r] /\ Goto(t, "busy")
      /\ UNCHANGED <<online, available, due, earnings>>
  BY DEF SetAssignment, Write
<1> QED BY <1>1, <1>4, <1>5, <1>6, <1>7, <1>8, WriteKeeps

LEMMA RequeueKeeps ==
  ASSUME DeliveryInv, NEW t \in Tasks, Requeue(t)
  PROVE  DeliveryInv'
<1> DEFINE k == tasks[t]
           r == [deliveries[k.order] EXCEPT !.status = "pending_assignment",
                                            !.driver = NoDriver, !.deadline = "none"]
<1>1. k # Idle /\ k.pc = "requeue"
  BY DEF Requeue, At, Idle
<1>2. k \in Task /\ k.driver # NoDriver /\ deliveries[k.order] # NoRow
  BY <1>1, TaskThere DEF TaskFits
<1>3. deliveries[k.order] \in Row /\ RowFits(deliveries[k.order])
  BY <1>1, <1>2, TaskThere, RowThere
<1>4. r \in Row
  BY <1>3, StatusSet DEF Row
<1>5. RowFits(r) /\ Grows(deliveries[k.order], r)
  BY <1>3, <1>4, RowIsThere DEF Row, RowFits, Grows, AfterAcceptance, AfterPickUp
<1>6. [k EXCEPT !.pc = "attempts"] \in Task
  BY <1>2 DEF Task
<1>7. TaskFits([k EXCEPT !.pc = "attempts"], r)
  BY <1>2, <1>4, RowIsThere DEF TaskFits, Task
<1>8. /\ deliveries' = [deliveries EXCEPT ![k.order] = r] /\ Goto(t, "attempts")
      /\ UNCHANGED <<online, available, due, earnings>>
  BY DEF Requeue, Write
<1> QED BY <1>1, <1>4, <1>5, <1>6, <1>7, <1>8, WriteKeeps

LEMMA WriteAttemptsKeeps ==
  ASSUME DeliveryInv, NEW t \in Tasks, WriteAttempts(t)
  PROVE  DeliveryInv'
<1> DEFINE k == tasks[t]
           r == [deliveries[k.order] EXCEPT !.attempted = k.attempted]
           pc == IF k.next = "pending_assignment" THEN "release" ELSE "find"
<1>1. k # Idle /\ k.pc = "attempts"
  BY DEF WriteAttempts, At, Idle
<1>2. k \in Task /\ k.driver # NoDriver /\ deliveries[k.order] # NoRow
        /\ k.attempted \subseteq Drivers
  BY <1>1, TaskThere DEF TaskFits
<1>3. deliveries[k.order] \in Row /\ RowFits(deliveries[k.order])
  BY <1>1, <1>2, TaskThere, RowThere
<1>4. r \in Row
  BY <1>2, <1>3 DEF Row
<1>5. RowFits(r) /\ Grows(deliveries[k.order], r)
  BY <1>3, <1>4, RowIsThere DEF Row, RowFits, Grows
<1>6. [k EXCEPT !.pc = pc] \in Task
  BY <1>2 DEF Task
<1>7. TaskFits([k EXCEPT !.pc = pc], r)
  BY <1>2, <1>4, RowIsThere DEF TaskFits, Task, AfterAcceptance, AfterPickUp
<1>8. deliveries' = [deliveries EXCEPT ![k.order] = r]
  BY DEF WriteAttempts
<1>9. Goto(t, pc) /\ UNCHANGED <<online, available, due, earnings>>
  BY DEF WriteAttempts
<1> QED BY <1>1, <1>4, <1>5, <1>6, <1>7, <1>8, <1>9, WriteKeeps

LEMMA ReassignKeeps ==
  ASSUME DeliveryInv, NEW t \in Tasks, UpdateDriverUserId(t)
  PROVE  DeliveryInv'
<1> DEFINE k == tasks[t]
           r == [deliveries[k.order] EXCEPT !.driver = k.driver]
<1>1. k # Idle /\ k.pc = "reassign"
  BY DEF UpdateDriverUserId, At, Idle
<1>2. k \in Task /\ k.driver \in Drivers /\ deliveries[k.order] # NoRow
  BY <1>1, TaskThere DEF TaskFits
<1>3. deliveries[k.order] \in Row /\ RowFits(deliveries[k.order])
  BY <1>1, <1>2, TaskThere, RowThere
<1>4. r \in Row
  BY <1>2, <1>3 DEF Row
<1>5. RowFits(r) /\ Grows(deliveries[k.order], r)
  BY <1>2, <1>3, <1>4, RowIsThere, DeliveryAssumption DEF Row, RowFits, Grows
<1>6. [k EXCEPT !.pc = "busy"] \in Task
  BY <1>2 DEF Task
<1>7. TaskFits([k EXCEPT !.pc = "busy"], r)
  BY <1>2, <1>4, RowIsThere, DeliveryAssumption DEF TaskFits, Task
<1>8. /\ deliveries' = [deliveries EXCEPT ![k.order] = r] /\ Goto(t, "busy")
      /\ UNCHANGED <<online, available, due, earnings>>
  BY DEF UpdateDriverUserId
<1> QED BY <1>1, <1>4, <1>5, <1>6, <1>7, <1>8, WriteKeeps

\* The status an update decided on before others wrote, and the earnings of a
\* delivery that has no driver to release first.
LEMMA WriteStatusKeeps ==
  ASSUME DeliveryInv, NEW t \in Tasks, WriteStatus(t)
  PROVE  DeliveryInv'
<1> DEFINE o == tasks[t].order
           row == deliveries[o]
           next == tasks[t].next
           r == [row EXCEPT !.status = next,
                            !.accepted = @ \/ next = "accepted_by_driver",
                            !.picked = @ \/ next = "picked_up"]
           k == [tasks[t] EXCEPT !.pc = "release", !.driver = row.driver]
<1>1. tasks[t] # Idle /\ tasks[t].pc = "write"
  BY DEF WriteStatus, At, Idle
<1>2. /\ tasks[t] \in Task /\ o \in OrderIds /\ row # NoRow /\ next \in Statuses
      /\ TaskFits(tasks[t], row)
  BY <1>1, TaskThere DEF TaskFits, Task
<1>3. row \in Row /\ RowFits(row)
  BY <1>2, RowThere
<1>4. /\ next \in AfterAcceptance \ {"accepted_by_driver"} => row.accepted
      /\ next \in AfterPickUp \ {"picked_up"} => row.picked
  BY <1>1, <1>2 DEF TaskFits
<1>5. r \in Row
  BY <1>2, <1>3 DEF Row
<1>6. RowFits(r)
  BY <1>3, <1>4 DEF Row, RowFits
<1>7. Grows(row, r)
  BY <1>3, <1>5, RowIsThere DEF Row, Grows
<1>8. deliveries' = [deliveries EXCEPT ![o] = r]
  BY DEF WriteStatus, Write
<1>9. Kept /\ TablesOK'
  BY <1>2, <1>5, <1>6, <1>7, <1>8, KeptOne DEF WriteStatus, DeliveryInv, TypeOK, TablesOK
<1>10. deliveries'[o] = r /\ r # NoRow
  BY <1>2, <1>5, <1>8, RowIsThere DEF DeliveryInv, TypeOK
<1>11. next = "delivered" => r.accepted /\ r.picked
  BY <1>3, <1>4 DEF Row, AfterAcceptance, AfterPickUp
<1>12. Paid
  <2>1. CASE next = "delivered" /\ row.driver = NoDriver
    <3>1. earnings' = earnings \cup {[order |-> o, driver |-> NoDriver]}
      BY <2>1 DEF WriteStatus, EarnedByNobody
    <3>2. deliveries'[o] # NoRow /\ deliveries'[o].accepted /\ deliveries'[o].picked
      BY <1>10, <1>11, <2>1
    <3> QED BY <1>2, <3>1, <3>2, PaidOne
  <2>2. CASE ~(next = "delivered" /\ row.driver = NoDriver)
    <3>1. UNCHANGED earnings
      BY <2>2 DEF WriteStatus, EarnedByNobody
    <3> QED BY <3>1, PaidSame
  <2> QED BY <2>1, <2>2
<1>13. CASE next \in Terminal /\ row.driver # NoDriver
  <2>1. tasks' = [tasks EXCEPT ![t].pc = "release", ![t].driver = row.driver]
    BY <1>13 DEF WriteStatus, AfterStatus
  <2>2. tasks' = [tasks EXCEPT ![t] = k]
    BY <1>2, <2>1 DEF DeliveryInv, TypeOK, Task
  <2>3. k \in Task /\ k.order = o
    BY <1>2, <1>3 DEF Task, Row
  <2>4. TaskFits(k, r)
    BY <1>2, <1>3, <1>4, <1>10, <1>13 DEF TaskFits, Task, Row, Terminal, AfterAcceptance, AfterPickUp
  <2>5. TaskFits(k, deliveries'[k.order])
    BY <1>10, <2>3, <2>4
  <2> HIDE DEF k
  <2> QED BY <1>9, <1>12, <2>2, <2>3, <2>5, OneStep
<1>14. CASE ~(next \in Terminal /\ row.driver # NoDriver)
  <2>1. tasks' = [tasks EXCEPT ![t] = Idle]
    BY <1>14 DEF WriteStatus, AfterStatus, End
  <2> QED BY <1>9, <1>12, <2>1, OneStep
<1> QED BY <1>13, <1>14

-----------------------------------------------------------------------------
\* The statements on driver_status at the end of a handler or within a sweep.
LEMMA FreeKeeps ==
  ASSUME DeliveryInv, NEW t \in Tasks, FreePrevious(t)
  PROVE  DeliveryInv'
<1>1. tasks[t] # Idle /\ tasks[t].pc = "free"
  BY DEF FreePrevious, At, Idle
<1>2. TablesOK' /\ UNCHANGED <<deliveries, earnings>> /\ Goto(t, "requeue")
  BY DEF FreePrevious, SetAvailable, DeliveryInv, TypeOK, TablesOK
<1>3. [tasks[t] EXCEPT !.pc = "requeue"] \in Task
  BY <1>1, TaskThere DEF Task
<1>4. TaskFits([tasks[t] EXCEPT !.pc = "requeue"], deliveries[tasks[t].order])
  BY <1>1, TaskThere DEF TaskFits, Task
<1> QED BY <1>1, <1>2, <1>3, <1>4, KeptSame, PaidSame, GotoTask

LEMMA BusyKeeps ==
  ASSUME DeliveryInv, NEW t \in Tasks, MarkBusy(t)
  PROVE  DeliveryInv'
<1>1. TablesOK' /\ UNCHANGED <<deliveries, earnings>> /\ End(t)
  BY DEF MarkBusy, SetAvailable, DeliveryInv, TypeOK, TablesOK
<1> QED BY <1>1, EndKeeps

LEMMA ReleaseKeeps ==
  ASSUME DeliveryInv, NEW t \in Tasks, Release(t)
  PROVE  DeliveryInv'
<1> DEFINE k == tasks[t]
           e == [order |-> k.order, driver |-> k.driver]
<1>1. k # Idle /\ k.pc = "release"
  BY DEF Release, At, Idle
<1>2. /\ k \in Task /\ k.order \in OrderIds /\ k.driver \in Drivers \cup {NoDriver}
      /\ TaskFits(k, deliveries[k.order])
  BY <1>1, TaskThere
<1>3. TablesOK' /\ UNCHANGED deliveries /\ tasks' = [tasks EXCEPT ![t] = Idle]
  BY DEF Release, SetAvailable, End, DeliveryInv, TypeOK, TablesOK
<1>4. Paid
  <2>1. CASE k.next = "delivered"
    <3>1. earnings' = earnings \cup {e}
      BY <2>1 DEF Release
    <3>2. /\ deliveries[k.order] # NoRow
          /\ deliveries[k.order].accepted
          /\ deliveries[k.order].picked
      BY <1>1, <1>2, <2>1 DEF TaskFits, AfterAcceptance, AfterPickUp
    <3> QED BY <1>2, <1>3, <3>1, <3>2, PaidOne
  <2>2. CASE k.next # "delivered"
    BY <2>2, PaidSame DEF Release
  <2> QED BY <2>1, <2>2
<1> QED BY <1>3, <1>4, KeptSame, OneStep

LEMMA StopKeeps ==
  ASSUME DeliveryInv, NEW t \in Tasks, Stop(t)
  PROVE  DeliveryInv'
<1>1. TablesOK' /\ UNCHANGED <<deliveries, earnings>> /\ End(t)
  BY DEF Stop, DeliveryInv, TypeOK, TablesOK
<1> QED BY <1>1, EndKeeps

-----------------------------------------------------------------------------
\* Each statement of a running handler keeps the invariant.
LEMMA WorkKeeps ==
  ASSUME DeliveryInv, NEW t \in Tasks, Work(t) \/ Stop(t)
  PROVE  DeliveryInv'
BY FindKeeps, CreateKeeps, PickKeeps, SetAssignmentKeeps, BusyKeeps, FreeKeeps, RequeueKeeps,
   WriteAttemptsKeeps, ReassignKeeps, HireKeeps, WriteStatusKeeps, ReleaseKeeps, StopKeeps
   DEF Work

LEMMA StutterKeeps == ASSUME DeliveryInv, UNCHANGED vars PROVE DeliveryInv'
BY DEF DeliveryInv, TypeOK, vars, RowFits, TaskFits

\* Whatever handlers, sweeps and stops interleave, rows stay in order and every
\* handler fits the row it is about, although it read the row earlier.
THEOREM HandlersFitTheirRows == Spec => []DeliveryInv
<1>1. Init => DeliveryInv
  BY DeliveryAssumption DEF Init, DeliveryInv, TypeOK
<1>2. DeliveryInv /\ [Next]_vars => DeliveryInv'
  <2> SUFFICES ASSUME DeliveryInv, [Next]_vars PROVE DeliveryInv'
    OBVIOUS
  <2>1. ASSUME NEW t \in Tasks, NEW o \in OrderIds,
               \/ AutoAssignForOrder(t, o) \/ Sweep(t, o) \/ Decline(t, o)
               \/ \E d \in Drivers : AssignDriver(t, o, d)
               \/ \E next \in Statuses, by \in Drivers \cup {NoDriver} :
                    UpdateDeliveryStatus(t, o, next, by)
        PROVE  DeliveryInv'
    BY <2>1, AutoAssignKeeps, SweepKeeps, DeclineKeeps, AssignDriverKeeps, UpdateKeeps
  <2>2. CASE \E t \in Tasks : Work(t) \/ Stop(t)
    BY <2>2, WorkKeeps
  <2>3. CASE \E o \in OrderIds : Expire(o)
    BY <2>3, ExpireKeeps
  <2>4. CASE \E d \in Drivers :
               \/ \E on, av \in BOOLEAN : SetDriverAvailability(d, on, av)
               \/ \E o \in OrderIds : UpdateDriverLocation(o, d)
    BY <2>4, AvailabilityKeeps
  <2>5. CASE UNCHANGED vars
    BY <2>5, StutterKeeps
  <2> QED BY <2>1, <2>2, <2>3, <2>4, <2>5 DEF Next
<1> QED BY <1>1, <1>2, PTL DEF Spec

\* No delivery skips its acceptance or its pick-up, and nobody earns on one
\* that did (the run MCDelivery, for any number of handlers).
THEOREM StationsAlwaysVisited == Spec => []StationsAreVisited
<1>1. DeliveryInv => StationsAreVisited
  BY DEF DeliveryInv, StationsAreVisited, RowFits, NoRow, AfterAcceptance, AfterPickUp
<1> QED BY <1>1, HandlersFitTheirRows, PTL
=============================================================================
