---------------------------- MODULE Restaurants ----------------------------
(***************************************************************************)
(* The restaurants of the restaurant service: restaurant.restaurants       *)
(* (models/Restaurant.ts), the handlers of restaurantController.ts, and    *)
(* the public card of discoveryController.ts, which is cached.             *)
(*                                                                         *)
(* A handler reads the row, tests it, and later updates it by its id alone:*)
(* what it tested may be gone.  Onboarding makes an account in the auth    *)
(* service first and takes it back when the restaurant cannot be inserted. *)
(***************************************************************************)
EXTENDS CacheAside

CONSTANTS
  Rests,        \* ids of restaurants
  Owners,       \* ids of restaurant accounts
  MaxTasks      \* bound on the handlers begun

ASSUME RestaurantsAssumption ==
  /\ None \notin Rests \cup Owners
  /\ {"card", "details", "menu"} \X Rests \subseteq Keys
  /\ MaxTasks \in Nat

VARIABLES
  rows,         \* restaurant.restaurants
  account,      \* the owners' accounts in the auth service
  task,         \* the handler each slot runs
  tasks,        \* handlers begun so far
  onboarded,    \* history: accounts made by onboarding
  placed,       \* history: those whose restaurant was inserted
  unsure        \* history: those of an onboarding that lost an answer or stopped

restaurantVars == <<rows, account, task, tasks, onboarded, placed, unsure>>
onboarding == <<account, onboarded, placed, unsure>>

Row == [owner : Owners, parent : Rests \cup {None}, active : BOOLEAN,
        open : BOOLEAN, blocked : BOOLEAN,
        approval : {"pending", "approved", "rejected"}]

ASSUME RowAssumption == None \notin Row

RowOps == {"update", "approve", "block", "unblock", "open", "close", "reject"}

Task == [op : RowOps \cup {"onboard", None},
         step : {"idle", "update", "insert", "undo"},
         row : Rests \cup {None}, owner : Owners \cup {None}]

NoTask == [op |-> None, step |-> "idle", row |-> None, owner |-> None]

RestaurantsTypeOK ==
  /\ rows \in [Rests -> Row \cup {None}]
  /\ account \in [Owners -> {"none", "live", "gone"}]
  /\ task \in [Handlers -> Task]
  /\ tasks \in 0..MaxTasks
  /\ onboarded \cup placed \cup unsure \subseteq Owners

RestaurantsInit ==
  /\ rows = [r \in Rests |-> None]
  /\ account = [o \in Owners |-> "none"]
  /\ task = [s \in Handlers |-> NoTask]
  /\ tasks = 0
  /\ onboarded = {} /\ placed = {} /\ unsure = {}

-----------------------------------------------------------------------------
Existing == {r \in Rests : rows[r] # None}

\* The keys whose entries show restaurant r: getRestaurantPublic,
\* getRestaurantWithMenu and getRestaurantMenu.
Card(r) == <<"card", r>>
Details(r) == <<"details", r>>
MenuKey(r) == <<"menu", r>>

\* What the public endpoints show.
Servable(r) ==
  /\ rows[r].parent = None
  /\ rows[r].active /\ rows[r].open /\ ~rows[r].blocked

NewRow(o, p, approved) ==
  [owner |-> o, parent |-> p, active |-> approved, open |-> FALSE,
   blocked |-> FALSE, approval |-> IF approved THEN "approved" ELSE "pending"]

\* Restaurant.create: one INSERT, with a new id.
Insert(o, p, approved) ==
  \E r \in Rests \ Existing :
    rows' = [rows EXCEPT ![r] = NewRow(o, p, approved)]

Begin(s, t) ==
  /\ task[s] = NoTask
  /\ dropping[s] = {}
  /\ tasks < MaxTasks
  /\ tasks' = tasks + 1
  /\ task' = [task EXCEPT ![s] = t]

Finish(s) == task' = [task EXCEPT ![s] = NoTask] /\ UNCHANGED tasks

\* A handler has read row r and found nothing to refuse.
BeginOn(s, op, r) ==
  /\ Begin(s, [NoTask EXCEPT !.op = op, !.step = "update", !.row = r])
  /\ UNCHANGED <<rows, onboarding, cacheVars>>

\* ensureOwnership: the owner of the row, or an administrator (None) where the
\* handler admits one.
Manages(caller, r) == caller \in {rows[r].owner, None}

-----------------------------------------------------------------------------
(* The handlers that insert a row.                                         *)

\* An owner registers with the auth service.
OwnerSignsUp(o) ==
  /\ account[o] = "none"
  /\ account' = [account EXCEPT ![o] = "live"]
  /\ UNCHANGED <<rows, task, tasks, onboarded, placed, unsure, cacheVars>>

CreateRestaurant(o) ==
  /\ account[o] = "live"
  /\ Insert(o, None, FALSE)
  /\ UNCHANGED <<onboarding, task, tasks, cacheVars>>

\* The administrator's user_id is taken as it is.
CreateRestaurantByAdmin(o) ==
  /\ account[o] # "none"
  /\ Insert(o, None, TRUE)
  /\ UNCHANGED <<onboarding, task, tasks, cacheVars>>

\* ensureOwnership(parent), then the INSERT: a row never changes its owner.
\* The card and the details of p count its branches, and stay as they are.
CreateBranch(o, p) ==
  /\ rows[p].owner = o
  /\ Insert(o, p, FALSE)
  /\ ChangeUnseen({Card(p), Details(p)})
  /\ UNCHANGED <<onboarding, task, tasks>>

CreateBranchByAdmin(p) ==
  /\ Insert(rows[p].owner, p, TRUE)
  /\ ChangeUnseen({Card(p), Details(p)})
  /\ UNCHANGED <<onboarding, task, tasks>>

-----------------------------------------------------------------------------
(* The handlers that update a row: the SELECT and its tests.               *)

UpdateRestaurant(s, caller, r) ==
  Manages(caller, r) /\ BeginOn(s, "update", r)

ApproveRestaurant(s, r) == ~rows[r].blocked /\ BeginOn(s, "approve", r)

BlockRestaurant(s, caller, r) ==
  Manages(caller, r) /\ BeginOn(s, "block", r)

UnblockRestaurant(s, caller, r) ==
  Manages(caller, r) /\ BeginOn(s, "unblock", r)

OpenRestaurant(s, r) ==
  rows[r].active /\ ~rows[r].blocked /\ BeginOn(s, "open", r)

CloseRestaurant(s, r) == BeginOn(s, "close", r)

RejectRestaurant(s, r) ==
  rows[r].approval # "approved" /\ BeginOn(s, "reject", r)

\* Fault: approval trusts the SELECT that the restaurant is not blocked.
WrittenAsRead(op, row) ==
  CASE op = "approve" -> [row EXCEPT !.active = TRUE, !.approval = "approved"]
    [] op = "block"   -> [row EXCEPT !.blocked = TRUE, !.active = FALSE, !.open = FALSE]
    [] op = "unblock" -> [row EXCEPT !.blocked = FALSE]
    [] op = "open"    -> [row EXCEPT !.open = TRUE]
    [] op = "close"   -> [row EXCEPT !.open = FALSE]
    [] op = "reject"  -> [row EXCEPT !.approval = "rejected", !.active = FALSE]
    [] OTHER -> row

\* Fault: a rejection writes a word the column's readers do not know.
WrittenDeclined(op, row) ==
  [WrittenAsRead(op, row) EXCEPT !.approval = IF op = "reject" THEN "declined" ELSE @]

\* The columns each handler's UPDATE sets.
Written(op, row) ==
  CASE op = "approve" -> [row EXCEPT !.active = TRUE, !.blocked = FALSE,
                                     !.approval = "approved"]
    [] op = "block"   -> [row EXCEPT !.blocked = TRUE, !.active = FALSE, !.open = FALSE]
    [] op = "unblock" -> [row EXCEPT !.blocked = FALSE]
    [] op = "open"    -> [row EXCEPT !.open = TRUE]
    [] op = "close"   -> [row EXCEPT !.open = FALSE]
    [] op = "reject"  -> [row EXCEPT !.approval = "rejected", !.active = FALSE]
    [] OTHER -> row

\* Restaurant.update, by id.  All three entries show the row; the handler goes
\* on to delete the card alone.
UpdateRow(s) ==
  LET r == task[s].row IN
    /\ task[s].step = "update"
    /\ rows' = [rows EXCEPT ![r] = Written(task[s].op, @)]
    /\ Change(s, {Card(r), Details(r), MenuKey(r)}, {Card(r)})
    /\ Finish(s)
    /\ UNCHANGED onboarding

-----------------------------------------------------------------------------
(* onboardRestaurantByAdmin.                                               *)

\* POST /auth/admin/restaurant-owner.  An answer that is lost, or not
\* understood, ends the request and leaves the account.
OnboardRestaurantByAdmin(s, o) ==
  /\ account[o] = "none"
  /\ account' = [account EXCEPT ![o] = "live"]
  /\ onboarded' = onboarded \cup {o}
  /\ \/ /\ Begin(s, [NoTask EXCEPT !.op = "onboard", !.step = "insert", !.owner = o])
        /\ UNCHANGED unsure
     \/ /\ Begin(s, NoTask)
        /\ unsure' = unsure \cup {o}
  /\ UNCHANGED <<rows, placed, cacheVars>>

\* The INSERT; the connection may break after it has committed, and the
\* handler then sees an error.
InsertOnboarded(s) ==
  LET o == task[s].owner IN
    /\ task[s].step = "insert"
    /\ Insert(o, None, TRUE)
    /\ placed' = placed \cup {o}
    /\ \/ Finish(s) /\ UNCHANGED unsure
       \/ /\ task' = [task EXCEPT ![s].step = "undo"]
          /\ unsure' = unsure \cup {o}
          /\ UNCHANGED tasks
    /\ UNCHANGED <<account, onboarded, cacheVars>>

\* Fault: no catch around the INSERT.
InsertThrowsUp(s) ==
  /\ task[s].step = "insert"
  /\ Finish(s)
  /\ UNCHANGED <<rows, onboarding, cacheVars>>

InsertThrows(s) ==
  /\ task[s].step = "insert"
  /\ task' = [task EXCEPT ![s].step = "undo"]
  /\ UNCHANGED <<rows, tasks, onboarding, cacheVars>>

\* DELETE /auth/admin/restaurant-owner/:id.  Refused or unanswered, the
\* account may or may not be gone: the response to the caller says so.
RollBackOwner(s) ==
  LET o == task[s].owner IN
    /\ task[s].step = "undo"
    /\ \/ account' = [account EXCEPT ![o] = "gone"] /\ UNCHANGED unsure
       \/ /\ account' \in {account, [account EXCEPT ![o] = "gone"]}
          /\ unsure' = unsure \cup {o}
    /\ Finish(s)
    /\ UNCHANGED <<rows, onboarded, placed, cacheVars>>

\* The service stops in the middle of a handler.
StopTask(s) ==
  /\ task[s] # NoTask
  /\ Finish(s)
  /\ unsure' = unsure \cup ({task[s].owner} \ {None})
  /\ UNCHANGED <<rows, account, onboarded, placed, cacheVars>>

-----------------------------------------------------------------------------
(* The public readers: getRestaurantPublic, and getRestaurantWithMenu, whose *)
(* entry no handler deletes.                                                *)

\* Fault: the row is shown whatever it says.
GetAnyRestaurant(c, r) == Read(c, Card(r)) /\ UNCHANGED restaurantVars

GetRestaurantPublic(c, r) ==
  Servable(r) /\ Read(c, Card(r)) /\ UNCHANGED restaurantVars

GetRestaurantWithMenu(c, r) ==
  Servable(r) /\ Read(c, Details(r)) /\ UNCHANGED restaurantVars

BeginTask(s) ==
  \/ \E r \in Existing, caller \in Owners \cup {None} :
       \/ UpdateRestaurant(s, caller, r)
       \/ BlockRestaurant(s, caller, r)
       \/ UnblockRestaurant(s, caller, r)
  \/ \E r \in Existing :
       \/ ApproveRestaurant(s, r)
       \/ OpenRestaurant(s, r)
       \/ CloseRestaurant(s, r)
       \/ RejectRestaurant(s, r)
  \/ \E o \in Owners : OnboardRestaurantByAdmin(s, o)

Creations ==
  \/ \E o \in Owners :
       \/ OwnerSignsUp(o) \/ CreateRestaurant(o) \/ CreateRestaurantByAdmin(o)
       \/ \E p \in Existing : CreateBranch(o, p)
  \/ \E p \in Existing : CreateBranchByAdmin(p)

TaskStep(s) ==
  \/ UpdateRow(s)
  \/ InsertOnboarded(s) \/ InsertThrows(s) \/ RollBackOwner(s) \/ StopTask(s)

RestaurantReads ==
  \E c \in Readers, r \in Existing :
    GetRestaurantPublic(c, r) \/ GetRestaurantWithMenu(c, r)

RestaurantsNext ==
  \/ \E s \in Handlers : BeginTask(s) \/ TaskStep(s)
  \/ Creations
  \/ RestaurantReads
  \/ CacheNext /\ UNCHANGED restaurantVars

RestaurantsSpec ==
  RestaurantsInit /\ CacheInit /\ [][RestaurantsNext]_<<restaurantVars, cacheVars>>

-----------------------------------------------------------------------------
(* Properties.                                                             *)

\* An active restaurant is approved and not blocked, however approvals,
\* rejections and blocks that read the same row interleave.
OnlyApprovedServe ==
  \A r \in Existing : rows[r].active =>
    rows[r].approval = "approved" /\ ~rows[r].blocked

\* Onboarding is all or nothing: once its request is over, an account it made
\* has its restaurant, or is deleted and has none, unless an answer was lost
\* or the service stopped on the way.
OnboardingIsAtomic ==
  \A o \in onboarded \ unsure :
    \/ \E s \in Handlers : task[s].op = "onboard" /\ task[s].owner = o
    \/ account[o] = "live" /\ o \in placed
    \/ account[o] = "gone" /\ o \notin placed

\* A card is served of a restaurant the public may not see only while its
\* deletion is under way, or after it failed, or when a reader stored the card
\* late: a cached card never outlives a block by itself.
CardsAreServable ==
  \A r \in Existing : entry[Card(r)] \in {"current", "outdated"} =>
    \/ Servable(r)
    \/ Card(r) \in missed
    \/ \E s \in Handlers : Card(r) \in dropping[s]
=============================================================================
