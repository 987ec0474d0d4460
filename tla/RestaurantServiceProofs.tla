---------------------- MODULE RestaurantServiceProofs -----------------------
(***************************************************************************)
(* What the restaurant service guarantees, for every set of restaurants,   *)
(* owners, menus and rated orders and any number of handlers, readers and  *)
(* transactions at once: only approved restaurants serve, onboarding       *)
(* leaves no half, a cached card that became wrong is about to be deleted, *)
(* menus are closed under their references, and averages are exact.        *)
(***************************************************************************)
EXTENDS RestaurantService, TLAPS

vars == <<restaurantVars, cacheVars>>

\* What a handler in the middle of its work holds on to.
TasksFit ==
  \A s \in Handlers :
    /\ task[s].step = "update" => task[s].row \in Existing
    /\ task[s].step \in {"insert", "undo"} =>
         task[s].op = "onboard" /\ task[s].owner \in onboarded

RowsInv == RestaurantsTypeOK /\ CacheTypeOK /\ TasksFit /\ OnlyApprovedServe

-----------------------------------------------------------------------------
(* The rows.                                                               *)

\* An INSERT adds a row that keeps the rules, and leaves the others.
LEMMA InsertKeeps ==
  ASSUME RestaurantsTypeOK, OnlyApprovedServe,
         NEW o \in Owners, NEW p \in Rests \cup {None}, NEW b \in BOOLEAN,
         Insert(o, p, b)
  PROVE  /\ rows' \in [Rests -> Row \cup {None}]
         /\ Existing \subseteq Existing'
         /\ OnlyApprovedServe'
<1>1. PICK r \in Rests \ Existing : rows' = [rows EXCEPT ![r] = NewRow(o, p, b)]
  BY DEF Insert
<1>2. NewRow(o, p, b) \in Row
  BY DEF NewRow, Row
<1>3. NewRow(o, p, b).active =>
        NewRow(o, p, b).approval = "approved" /\ ~NewRow(o, p, b).blocked
  BY DEF NewRow
<1> HIDE DEF Insert
<1> QED
  BY <1>1, <1>2, <1>3 DEF RestaurantsTypeOK, Existing, OnlyApprovedServe

\* No handler's UPDATE makes a row active that is blocked or not approved.
LEMMA WrittenKeeps ==
  ASSUME NEW row \in Row, NEW op,
         row.active => row.approval = "approved" /\ ~row.blocked
  PROVE  /\ Written(op, row) \in Row
         /\ Written(op, row).active =>
              Written(op, row).approval = "approved" /\ ~Written(op, row).blocked
BY DEF Written, Row

LEMMA FinishType ==
  ASSUME RestaurantsTypeOK, NEW s \in Handlers, Finish(s)
  PROVE  /\ task' \in [Handlers -> Task] /\ tasks' \in 0..MaxTasks
         /\ task'[s] = NoTask
         /\ \A x \in Handlers : x # s => task'[x] = task[x]
BY DEF Finish, RestaurantsTypeOK, NoTask, Task

LEMMA BeginType ==
  ASSUME RestaurantsTypeOK, NEW s \in Handlers, NEW t \in Task, Begin(s, t)
  PROVE  /\ task' \in [Handlers -> Task] /\ tasks' \in 0..MaxTasks
         /\ task'[s] = t
         /\ \A x \in Handlers : x # s => task'[x] = task[x]
BY RestaurantsAssumption DEF Begin, RestaurantsTypeOK

LEMMA BeginOnKeeps ==
  ASSUME RowsInv, NEW s \in Handlers, NEW op \in RowOps, NEW r \in Existing,
         BeginOn(s, op, r)
  PROVE  RowsInv'
<1> DEFINE t == [NoTask EXCEPT !.op = op, !.step = "update", !.row = r]
<1>1. t \in Task /\ t.step = "update" /\ t.row = r
  BY DEF Task, NoTask, Existing
<1> HIDE DEF t
<1>2. Begin(s, t) /\ UNCHANGED <<rows, onboarding, cacheVars>>
  BY DEF BeginOn, t
<1>3. /\ task' \in [Handlers -> Task] /\ tasks' \in 0..MaxTasks
      /\ task'[s] = t
      /\ \A x \in Handlers : x # s => task'[x] = task[x]
  BY <1>1, <1>2, BeginType DEF RowsInv
<1> QED
  BY <1>1, <1>2, <1>3
  DEF RowsInv, RestaurantsTypeOK, CacheTypeOK, TasksFit, OnlyApprovedServe, Existing,
      onboarding, cacheVars

\* The cache steps and the readers keep the cache's types.
LEMMA CacheNextType ==
  ASSUME CacheTypeOK, CacheNext PROVE CacheTypeOK'
<1>1. ASSUME NEW r \in Readers, Store(r) PROVE CacheTypeOK'
  BY <1>1 DEF Store, CacheTypeOK, NoLookup
<1>2. ASSUME NEW r \in Readers, StoreFails(r) PROVE CacheTypeOK'
  BY <1>2 DEF StoreFails, CacheTypeOK, NoLookup
<1>3. ASSUME NEW s \in Handlers, Drop(s) PROVE CacheTypeOK'
  BY <1>3 DEF Drop, CacheTypeOK
<1>4. ASSUME NEW s \in Handlers, DropFails(s) PROVE CacheTypeOK'
  BY <1>4 DEF DropFails, CacheTypeOK
<1>5. ASSUME NEW k \in Keys, Expire(k) PROVE CacheTypeOK'
  BY <1>5 DEF Expire, CacheTypeOK
<1> QED
  BY <1>1, <1>2, <1>3, <1>4, <1>5 DEF CacheNext

LEMMA ReadType ==
  ASSUME CacheTypeOK, NEW c \in Readers, NEW k \in Keys, Read(c, k) PROVE CacheTypeOK'
BY DEF Read, CacheTypeOK

\* A change makes entries and answers outdated, and touches nothing else of them.
OnlyOutdates ==
  /\ \A k \in Keys : entry'[k] # entry[k] => entry[k] = "current" /\ entry'[k] = "outdated"
  /\ \A c \in Readers : /\ lookup'[c].key = lookup[c].key
                        /\ lookup'[c].data = "current" => lookup[c].data = "current"
  /\ \A s \in Handlers : dropping[s] \subseteq dropping'[s]
  /\ missed' = missed

LEMMA OutdateType ==
  ASSUME CacheTypeOK, NEW shown, Outdate(shown)
  PROVE  /\ entry' \in [Keys -> {"none", "current", "outdated", "late"}]
         /\ lookup' \in [Readers -> [key : Keys \cup {None}, data : {"current", "old"}]]
         /\ \A k \in Keys : entry'[k] # entry[k] => entry[k] = "current" /\ entry'[k] = "outdated"
         /\ \A c \in Readers : /\ lookup'[c].key = lookup[c].key
                               /\ lookup'[c].data = "current" =>
                                    lookup[c].data = "current" /\ lookup[c].key \notin shown
<1>1. ASSUME NEW r \in Readers
      PROVE  [lookup[r] EXCEPT !.data = "old"] \in [key : Keys \cup {None}, data : {"current", "old"}]
  BY DEF CacheTypeOK
<1>2. /\ entry' \in [Keys -> {"none", "current", "outdated", "late"}]
      /\ lookup' \in [Readers -> [key : Keys \cup {None}, data : {"current", "old"}]]
  BY <1>1 DEF Outdate, CacheTypeOK
<1>3. \A k \in Keys : entry'[k] # entry[k] => entry[k] = "current" /\ entry'[k] = "outdated"
  BY DEF Outdate
<1>4. ASSUME NEW c \in Readers
      PROVE  /\ lookup'[c].key = lookup[c].key
             /\ lookup'[c].data = "current" =>
                  lookup[c].data = "current" /\ lookup[c].key \notin shown
  BY DEF Outdate, CacheTypeOK
<1> QED
  BY <1>2, <1>3, <1>4

LEMMA ChangeType ==
  ASSUME CacheTypeOK, NEW s \in Handlers, NEW shown, NEW named \in SUBSET Keys,
         Change(s, shown, named)
  PROVE  CacheTypeOK' /\ OnlyOutdates /\ named \subseteq dropping'[s]
<1>1. /\ dropping' \in [Handlers -> SUBSET Keys]
      /\ \A x \in Handlers : dropping[x] \subseteq dropping'[x]
      /\ named \subseteq dropping'[s]
      /\ missed' = missed
  BY DEF Change, CacheTypeOK
<1> QED
  BY <1>1, OutdateType DEF Change, CacheTypeOK, OnlyOutdates

LEMMA UnseenType ==
  ASSUME CacheTypeOK, NEW shown, ChangeUnseen(shown) PROVE CacheTypeOK' /\ OnlyOutdates
BY OutdateType DEF ChangeUnseen, CacheTypeOK, OnlyOutdates

LEMMA SameCache ==
  ASSUME CacheTypeOK, UNCHANGED cacheVars PROVE CacheTypeOK' /\ OnlyOutdates
BY DEF cacheVars, CacheTypeOK, OnlyOutdates

LEMMA RowsInit == RestaurantsInit /\ CacheInit => RowsInv
<1> SUFFICES ASSUME RestaurantsInit, CacheInit PROVE RowsInv
  OBVIOUS
<1>1. NoTask \in Task /\ NoTask.step = "idle"
  BY DEF Task, NoTask
<1>2. NoLookup \in [key : Keys \cup {None}, data : {"current", "old"}]
  BY DEF NoLookup
<1> QED
  BY <1>1, <1>2, RestaurantsAssumption
  DEF RestaurantsInit, CacheInit, RowsInv, RestaurantsTypeOK, CacheTypeOK, TasksFit,
      OnlyApprovedServe, Existing

LEMMA RowsNext == RowsInv /\ [RestaurantsNext]_vars => RowsInv'
<1> SUFFICES ASSUME RowsInv, [RestaurantsNext]_vars PROVE RowsInv'
  OBVIOUS
<1> USE DEF restaurantVars, cacheVars, onboarding
<1>1. RestaurantsTypeOK /\ CacheTypeOK /\ TasksFit /\ OnlyApprovedServe
  BY DEF RowsInv
<1>2. ASSUME NEW s \in Handlers, BeginTask(s) PROVE RowsInv'
  <2>1. ASSUME NEW op \in RowOps, NEW r \in Existing, BeginOn(s, op, r) PROVE RowsInv'
    BY <2>1, BeginOnKeeps
  <2>2. ASSUME NEW o \in Owners, OnboardRestaurantByAdmin(s, o) PROVE RowsInv'
    <3>1. PICK t \in Task :
            /\ Begin(s, t) /\ t.step # "update"
            /\ t.step \in {"insert", "undo"} => t.op = "onboard" /\ t.owner = o
      <4>1. /\ [NoTask EXCEPT !.op = "onboard", !.step = "insert", !.owner = o] \in Task
            /\ NoTask \in Task
        BY DEF Task, NoTask
      <4> QED
        BY <2>2, <4>1 DEF OnboardRestaurantByAdmin, NoTask
    <3>2. /\ task' \in [Handlers -> Task] /\ tasks' \in 0..MaxTasks
          /\ task'[s] = t
          /\ \A x \in Handlers : x # s => task'[x] = task[x]
      BY <1>1, <3>1, BeginType
    <3>3. RestaurantsTypeOK'
      BY <1>1, <2>2, <3>2 DEF OnboardRestaurantByAdmin, RestaurantsTypeOK
    <3>4. TasksFit'
      BY <1>1, <2>2, <3>1, <3>2 DEF OnboardRestaurantByAdmin, TasksFit, Existing
    <3> QED
      BY <1>1, <2>2, <3>3, <3>4
      DEF OnboardRestaurantByAdmin, RowsInv, CacheTypeOK, OnlyApprovedServe, Existing
  <2> QED
    BY <1>2, <2>1, <2>2
    DEF BeginTask, UpdateRestaurant, BlockRestaurant, UnblockRestaurant, ApproveRestaurant,
        OpenRestaurant, CloseRestaurant, RejectRestaurant, RowOps
<1>3. ASSUME NEW s \in Handlers, UpdateRow(s) PROVE RowsInv'
  <2> DEFINE r == task[s].row
             w == Written(task[s].op, rows[r])
  <2>1. r \in Existing /\ r \in Rests /\ rows[r] \in Row
    BY <1>1, <1>3 DEF UpdateRow, TasksFit, Existing, RestaurantsTypeOK
  <2>2. w \in Row /\ (w.active => w.approval = "approved" /\ ~w.blocked)
    BY <1>1, <2>1, WrittenKeeps DEF OnlyApprovedServe
  <2>3. rows' = [rows EXCEPT ![r] = w]
    BY <1>3, <2>1 DEF UpdateRow
  <2> HIDE DEF w
  <2>4. /\ task' \in [Handlers -> Task] /\ tasks' \in 0..MaxTasks
        /\ task'[s] = NoTask
        /\ \A x \in Handlers : x # s => task'[x] = task[x]
    BY <1>1, <1>3, FinishType DEF UpdateRow
  <2>5. RestaurantsTypeOK'
    BY <1>1, <1>3, <2>1, <2>2, <2>3, <2>4 DEF UpdateRow, RestaurantsTypeOK
  <2>6. Existing' = Existing
    BY <1>1, <2>1, <2>2, <2>3, RowAssumption DEF Existing, RestaurantsTypeOK
  <2>7. TasksFit'
    BY <1>1, <1>3, <2>4, <2>6 DEF UpdateRow, TasksFit, NoTask
  <2>8. OnlyApprovedServe'
    BY <1>1, <2>1, <2>2, <2>3, <2>6 DEF OnlyApprovedServe, RestaurantsTypeOK, Existing
  <2>9. CacheTypeOK'
    <3>1. {Card(r)} \in SUBSET Keys
      BY <2>1, RestaurantsAssumption DEF Card
    <3>2. Change(s, {Card(r), Details(r), MenuKey(r)}, {Card(r)})
      BY <1>3 DEF UpdateRow
    <3> QED
      BY <1>1, <3>1, <3>2, ChangeType
  <2> QED
    BY <2>5, <2>7, <2>8, <2>9 DEF RowsInv
<1>4. ASSUME NEW s \in Handlers,
             InsertOnboarded(s) \/ InsertThrows(s) \/ RollBackOwner(s) \/ StopTask(s)
      PROVE  RowsInv'
  <2>1. task[s] \in Task
    BY <1>1 DEF RestaurantsTypeOK
  <2>2. CASE InsertOnboarded(s)
    <3>1. task[s].owner \in Owners
      BY <1>1, <2>1, <2>2 DEF InsertOnboarded, Insert, TasksFit, RestaurantsTypeOK
    <3>2. /\ rows' \in [Rests -> Row \cup {None}]
          /\ Existing \subseteq Existing'
          /\ OnlyApprovedServe'
      BY <1>1, <2>2, <3>1, InsertKeeps DEF InsertOnboarded
    <3>3. /\ task' \in [Handlers -> Task] /\ tasks' \in 0..MaxTasks
          /\ \/ task'[s] = NoTask
             \/ task'[s] = [task[s] EXCEPT !.step = "undo"]
          /\ \A x \in Handlers : x # s => task'[x] = task[x]
      BY <1>1, <2>1, <2>2, FinishType DEF InsertOnboarded, Task, RestaurantsTypeOK
    <3>4. RestaurantsTypeOK'
      BY <1>1, <2>2, <3>1, <3>2, <3>3 DEF InsertOnboarded, Finish, RestaurantsTypeOK
    <3>5. TasksFit'
      BY <1>1, <2>1, <2>2, <3>2, <3>3 DEF InsertOnboarded, TasksFit, NoTask, Task
    <3> QED
      BY <1>1, <2>2, <3>2, <3>4, <3>5 DEF InsertOnboarded, RowsInv, CacheTypeOK
  <2>3. CASE InsertThrows(s)
    <3>1. /\ task' = [task EXCEPT ![s].step = "undo"]
          /\ [task[s] EXCEPT !.step = "undo"] \in Task
      BY <2>1, <2>3 DEF InsertThrows, Task
    <3>2. RestaurantsTypeOK'
      BY <1>1, <2>3, <3>1 DEF InsertThrows, RestaurantsTypeOK
    <3>3. TasksFit'
      BY <1>1, <2>1, <2>3, <3>1 DEF InsertThrows, TasksFit, RestaurantsTypeOK, Existing, Task
    <3> QED
      BY <1>1, <2>3, <3>2, <3>3 DEF InsertThrows, RowsInv, CacheTypeOK, OnlyApprovedServe, Existing
  <2>4. CASE RollBackOwner(s) \/ StopTask(s)
    <3>1. Finish(s) /\ UNCHANGED <<rows, onboarded, placed, cacheVars>>
      BY <2>4 DEF RollBackOwner, StopTask
    <3>2. /\ task' \in [Handlers -> Task] /\ tasks' \in 0..MaxTasks
          /\ task'[s] = NoTask
          /\ \A x \in Handlers : x # s => task'[x] = task[x]
      BY <1>1, <3>1, FinishType
    <3>3. account' \in [Owners -> {"none", "live", "gone"}]
      BY <1>1, <2>4 DEF RollBackOwner, StopTask, RestaurantsTypeOK
    <3>4. unsure' \subseteq Owners
      <4>1. task[s].owner \in Owners \cup {None}
        BY <2>1 DEF Task
      <4>2. CASE StopTask(s)
        BY <1>1, <4>1, <4>2 DEF StopTask, RestaurantsTypeOK
      <4>3. CASE RollBackOwner(s)
        <5>1. task[s].owner \in onboarded
          BY <1>1, <4>3 DEF RollBackOwner, TasksFit
        <5> QED
          BY <1>1, <4>3, <5>1 DEF RollBackOwner, RestaurantsTypeOK
      <4> QED
        BY <2>4, <4>2, <4>3
    <3>5. RestaurantsTypeOK'
      BY <1>1, <3>1, <3>2, <3>3, <3>4 DEF RestaurantsTypeOK
    <3>6. TasksFit'
      BY <1>1, <3>1, <3>2 DEF TasksFit, NoTask, Existing
    <3> QED
      BY <1>1, <3>1, <3>5, <3>6 DEF RowsInv, CacheTypeOK, OnlyApprovedServe, Existing
  <2> QED
    BY <1>4, <2>2, <2>3, <2>4
<1>5. ASSUME Creations PROVE RowsInv'
  <2>1. ASSUME NEW o \in Owners, OwnerSignsUp(o) PROVE RowsInv'
    BY <1>1, <2>1
    DEF OwnerSignsUp, RowsInv, RestaurantsTypeOK, CacheTypeOK, TasksFit, OnlyApprovedServe, Existing
  <2>2. ASSUME NEW o \in Owners, NEW q \in Rests \cup {None}, NEW b \in BOOLEAN,
               Insert(o, q, b), UNCHANGED <<onboarding, task, tasks>>, CacheTypeOK'
        PROVE  RowsInv'
    <3>1. /\ rows' \in [Rests -> Row \cup {None}]
          /\ Existing \subseteq Existing'
          /\ OnlyApprovedServe'
      BY <1>1, <2>2, InsertKeeps
    <3> QED
      BY <1>1, <2>2, <3>1 DEF RowsInv, RestaurantsTypeOK, TasksFit
  <2>3. ASSUME NEW p \in Existing PROVE p \in Rests /\ rows[p].owner \in Owners
    BY <1>1 DEF Existing, RestaurantsTypeOK, Row
  <2>4. ASSUME NEW o \in Owners, CreateRestaurant(o) \/ CreateRestaurantByAdmin(o)
        PROVE  RowsInv'
    <3>1. CacheTypeOK'
      BY <1>1, <2>4, SameCache DEF CreateRestaurant, CreateRestaurantByAdmin
    <3> QED
      BY <2>2, <2>4, <3>1 DEF CreateRestaurant, CreateRestaurantByAdmin
  <2>5. ASSUME NEW p \in Existing, (\E o \in Owners : CreateBranch(o, p)) \/ CreateBranchByAdmin(p)
        PROVE  RowsInv'
    <3>1. CacheTypeOK'
      BY <1>1, <2>5, UnseenType DEF CreateBranch, CreateBranchByAdmin
    <3> QED
      BY <2>2, <2>3, <2>5, <3>1 DEF CreateBranch, CreateBranchByAdmin
  <2> QED
    BY <1>5, <2>1, <2>4, <2>5 DEF Creations
<1>6. ASSUME RestaurantReads PROVE RowsInv'
  <2>1. PICK c \in Readers, k \in Keys : Read(c, k) /\ UNCHANGED restaurantVars
    BY <1>6, RestaurantsAssumption
    DEF RestaurantReads, GetRestaurantPublic, GetRestaurantWithMenu, Card, Details, Existing
  <2>2. CacheTypeOK'
    BY <1>1, <2>1, ReadType
  <2> QED
    BY <1>1, <2>1, <2>2 DEF RowsInv, RestaurantsTypeOK, TasksFit, OnlyApprovedServe, Existing
<1>7. ASSUME CacheNext, UNCHANGED restaurantVars PROVE RowsInv'
  <2>1. CacheTypeOK'
    BY <1>1, <1>7, CacheNextType
  <2> QED
    BY <1>1, <1>7, <2>1 DEF RowsInv, RestaurantsTypeOK, TasksFit, OnlyApprovedServe, Existing
<1>8. CASE UNCHANGED vars
  BY <1>1, <1>8 DEF vars, RowsInv, RestaurantsTypeOK, CacheTypeOK, TasksFit, OnlyApprovedServe, Existing
<1> QED
  BY <1>2, <1>3, <1>4, <1>5, <1>6, <1>7, <1>8 DEF RestaurantsNext, TaskStep

LEMMA RowsAlways == RestaurantsSpec => []RowsInv
<1> QED
  BY RowsInit, RowsNext, PTL DEF RestaurantsSpec, vars

\* The tables and the cache keep their types.
THEOREM RestaurantsTypeCorrect == RestaurantsSpec => [](RestaurantsTypeOK /\ CacheTypeOK)
<1>1. RowsInv => RestaurantsTypeOK /\ CacheTypeOK
  BY DEF RowsInv
<1> QED
  BY <1>1, RowsAlways, PTL

\* A blocked or unapproved restaurant is never active, whatever handlers read
\* and wrote its row at once.
THEOREM ServingIsApproved == RestaurantsSpec => []OnlyApprovedServe
<1>1. RowsInv => OnlyApprovedServe
  BY DEF RowsInv
<1> QED
  BY <1>1, RowsAlways, PTL

-----------------------------------------------------------------------------
(* Onboarding.                                                             *)

\* Slot s is onboarding the owner of account o.
OnboardsNow(s, o) == task[s].step \in {"insert", "undo"} /\ task[s].owner = o

\* Each account has one onboarding, which knows whether its restaurant is there
\* unless it lost an answer.
OnboardingFits ==
  /\ placed \subseteq onboarded
  /\ \A o \in onboarded : account[o] # "none"
  /\ \A s \in Handlers, o \in Owners : OnboardsNow(s, o) =>
       /\ o \notin unsure => o \notin placed /\ account[o] = "live"
       /\ \A x \in Handlers : OnboardsNow(x, o) => x = s
  /\ \A o \in onboarded \ unsure :
       \/ \E s \in Handlers : OnboardsNow(s, o)
       \/ account[o] = "live" /\ o \in placed
       \/ account[o] = "gone" /\ o \notin placed

\* Steps that leave accounts and onboardings alone keep the rule.
LEMMA OnboardingStays ==
  ASSUME OnboardingFits, UNCHANGED <<onboarded, placed, unsure>>,
         \A o \in Owners : account[o] # "none" => account'[o] = account[o],
         onboarded \subseteq Owners,
         \A s \in Handlers, o \in Owners : OnboardsNow(s, o)' <=> OnboardsNow(s, o)
  PROVE  OnboardingFits'
BY DEF OnboardingFits

LEMMA OnboardingNext ==
  RowsInv /\ OnboardingFits /\ [RestaurantsNext]_vars => OnboardingFits'
<1> SUFFICES ASSUME RowsInv, OnboardingFits, [RestaurantsNext]_vars PROVE OnboardingFits'
  OBVIOUS
<1> USE DEF restaurantVars, onboarding
<1>1. /\ RestaurantsTypeOK /\ TasksFit
      /\ onboarded \subseteq Owners /\ placed \subseteq Owners /\ unsure \subseteq Owners
      /\ account \in [Owners -> {"none", "live", "gone"}]
  BY DEF RowsInv, RestaurantsTypeOK
<1>2. ASSUME NEW s \in Handlers, NEW op \in RowOps, NEW r \in Existing, BeginOn(s, op, r)
      PROVE  OnboardingFits'
  <2> DEFINE t == [NoTask EXCEPT !.op = op, !.step = "update", !.row = r]
  <2>1. t \in Task /\ t.step = "update"
    BY DEF Task, NoTask, Existing
  <2> HIDE DEF t
  <2>2. Begin(s, t) /\ UNCHANGED <<rows, onboarding, cacheVars>>
    BY <1>2 DEF BeginOn, t
  <2>3. task[s].step = "idle" /\ task'[s] = t
        /\ \A x \in Handlers : x # s => task'[x] = task[x]
    <3>1. task[s] = NoTask
      BY <2>2 DEF Begin
    <3> QED
      BY <1>1, <2>1, <2>2, <3>1, BeginType DEF NoTask
  <2> QED
    BY <1>1, <2>1, <2>2, <2>3, OnboardingStays DEF OnboardsNow
<1>3. ASSUME NEW s \in Handlers, NEW o \in Owners, OnboardRestaurantByAdmin(s, o)
      PROVE  OnboardingFits'
  <2>1. /\ account[o] = "none" /\ o \notin onboarded
        /\ account' = [account EXCEPT ![o] = "live"]
        /\ onboarded' = onboarded \cup {o} /\ placed' = placed
    BY <1>1, <1>3 DEF OnboardRestaurantByAdmin, OnboardingFits
  <2>2. PICK t \in Task :
          /\ Begin(s, t)
          /\ \/ OnboardRestaurantByAdmin(s, o) /\ t.step = "insert" /\ t.owner = o
                /\ unsure' = unsure
             \/ t.step = "idle" /\ unsure' = unsure \cup {o}
    <3>1. /\ [NoTask EXCEPT !.op = "onboard", !.step = "insert", !.owner = o] \in Task
          /\ NoTask \in Task
      BY DEF Task, NoTask
    <3> QED
      BY <1>3, <3>1 DEF OnboardRestaurantByAdmin, NoTask
  <2>3. task[s].step = "idle" /\ task'[s] = t
        /\ \A x \in Handlers : x # s => task'[x] = task[x]
    <3>1. task[s] = NoTask
      BY <2>2 DEF Begin
    <3> QED
      BY <1>1, <2>2, <3>1, BeginType DEF NoTask
  <2>4. \A x \in Handlers : ~OnboardsNow(x, o)
    BY <1>1, <2>1 DEF OnboardsNow, TasksFit
  <2>5. \A x \in Handlers, q \in Owners :
          q # o => (OnboardsNow(x, q)' <=> OnboardsNow(x, q))
    BY <1>1, <2>2, <2>3 DEF OnboardsNow
  <2>6. \A x \in Handlers : OnboardsNow(x, o)' => x = s
    BY <2>3, <2>4 DEF OnboardsNow
  <2>7. o \notin placed /\ account'[o] = "live"
        /\ \A q \in Owners : q # o => account'[q] = account[q]
    BY <1>1, <2>1 DEF OnboardingFits
  <2>8. unsure' = unsure => OnboardsNow(s, o)' \/ o \in unsure
    BY <2>2, <2>3 DEF OnboardsNow
  <2>9. unsure \subseteq unsure' /\ unsure' \subseteq unsure \cup {o}
    BY <2>2
  <2>10. unsure' = unsure \/ o \in unsure'
    BY <2>2
  <2> QED
    BY <1>1, <2>1, <2>5, <2>6, <2>7, <2>8, <2>9, <2>10 DEF OnboardingFits
<1>4. ASSUME NEW s \in Handlers, UpdateRow(s) PROVE OnboardingFits'
  <2>1. task[s].step = "update" /\ task'[s].step = "idle"
        /\ \A x \in Handlers : x # s => task'[x] = task[x]
    BY <1>1, <1>4, FinishType DEF UpdateRow, NoTask
  <2> QED
    BY <1>1, <1>4, <2>1, OnboardingStays DEF UpdateRow, OnboardsNow
<1>5. ASSUME NEW s \in Handlers, InsertOnboarded(s) PROVE OnboardingFits'
  <2> DEFINE o == task[s].owner
  <2>1. o \in Owners /\ o \in onboarded /\ OnboardsNow(s, o)
    BY <1>1, <1>5 DEF InsertOnboarded, TasksFit, OnboardsNow
  <2>2. /\ placed' = placed \cup {o} /\ UNCHANGED <<account, onboarded>>
        /\ \A x \in Handlers : x # s => task'[x] = task[x]
        /\ \/ task'[s].step = "idle" /\ unsure' = unsure
           \/ task'[s].step = "undo" /\ task'[s].owner = o /\ unsure' = unsure \cup {o}
    BY <1>1, <1>5, FinishType DEF InsertOnboarded, NoTask, RestaurantsTypeOK, Task
  <2>3. \A q \in Owners, x \in Handlers :
          OnboardsNow(x, q)' => OnboardsNow(x, q) /\ (q = o => o \in unsure')
    BY <2>1, <2>2 DEF OnboardsNow, OnboardingFits
  <2>4. \A q \in Owners, x \in Handlers : q # o /\ OnboardsNow(x, q) => OnboardsNow(x, q)'
    BY <2>2 DEF OnboardsNow
  <2>5. o \notin unsure => account[o] = "live"
    BY <2>1 DEF OnboardingFits
  <2>6. unsure \subseteq unsure' /\ unsure' \subseteq unsure \cup {o}
    BY <2>2
  <2> HIDE DEF o
  <2> QED
    BY <1>1, <2>1, <2>2, <2>3, <2>4, <2>5, <2>6 DEF OnboardingFits
<1>6. ASSUME NEW s \in Handlers, InsertThrows(s) PROVE OnboardingFits'
  <2>1. /\ task[s].step = "insert"
        /\ task'[s].step = "undo" /\ task'[s].owner = task[s].owner
        /\ \A x \in Handlers : x # s => task'[x] = task[x]
    BY <1>1, <1>6 DEF InsertThrows, RestaurantsTypeOK, Task
  <2> QED
    BY <1>1, <1>6, <2>1, OnboardingStays DEF InsertThrows, OnboardsNow
<1>7. ASSUME NEW s \in Handlers, RollBackOwner(s) PROVE OnboardingFits'
  <2> DEFINE o == task[s].owner
  <2>1. o \in Owners /\ o \in onboarded /\ OnboardsNow(s, o)
    BY <1>1, <1>7 DEF RollBackOwner, TasksFit, OnboardsNow
  <2>2. /\ UNCHANGED <<onboarded, placed>>
        /\ \A x \in Handlers : x # s => task'[x] = task[x]
        /\ task'[s].step = "idle"
        /\ \A q \in Owners : q # o => account'[q] = account[q]
        /\ unsure \subseteq unsure' /\ unsure' \subseteq unsure \cup {o}
        /\ o \notin unsure' => account'[o] = "gone"
        /\ account'[o] # "none"
    BY <1>1, <1>7, <2>1, FinishType DEF RollBackOwner, NoTask, OnboardingFits
  <2>3. \A q \in Owners, x \in Handlers : q = o => ~OnboardsNow(x, q)'
    BY <2>1, <2>2 DEF OnboardsNow, OnboardingFits
  <2>4. \A q \in Owners, x \in Handlers : q # o => (OnboardsNow(x, q) <=> OnboardsNow(x, q)')
    BY <2>2 DEF OnboardsNow
  <2>5. o \notin unsure => o \notin placed
    BY <2>1 DEF OnboardingFits
  <2> HIDE DEF o
  <2> QED
    BY <1>1, <2>1, <2>2, <2>3, <2>4, <2>5 DEF OnboardingFits
<1>8. ASSUME NEW s \in Handlers, StopTask(s) PROVE OnboardingFits'
  <2> DEFINE o == task[s].owner
  <2>1. /\ UNCHANGED <<account, onboarded, placed>>
        /\ \A x \in Handlers : x # s => task'[x] = task[x]
        /\ task'[s].step = "idle"
        /\ unsure' = unsure \cup ({o} \ {None})
    BY <1>1, <1>8, FinishType DEF StopTask, NoTask
  <2>2. \A q \in Owners, x \in Handlers : OnboardsNow(x, q)' => OnboardsNow(x, q)
    BY <2>1 DEF OnboardsNow
  <2>3. \A q \in Owners, x \in Handlers :
          OnboardsNow(x, q) => OnboardsNow(x, q)' \/ q \in unsure'
    BY <2>1, RestaurantsAssumption DEF OnboardsNow
  <2> HIDE DEF o
  <2> QED
    BY <1>1, <2>1, <2>2, <2>3 DEF OnboardingFits
<1>9. ASSUME Creations PROVE OnboardingFits'
  <2>1. ASSUME NEW o \in Owners, OwnerSignsUp(o) PROVE OnboardingFits'
    BY <1>1, <2>1, OnboardingStays DEF OwnerSignsUp, OnboardsNow
  <2>2. ASSUME UNCHANGED <<onboarding, task>> PROVE OnboardingFits'
    BY <1>1, <2>2, OnboardingStays DEF OnboardsNow
  <2> QED
    BY <1>9, <2>1, <2>2
    DEF Creations, CreateRestaurant, CreateRestaurantByAdmin, CreateBranch, CreateBranchByAdmin
<1>10. ASSUME UNCHANGED restaurantVars PROVE OnboardingFits'
  BY <1>1, <1>10, OnboardingStays DEF OnboardsNow
<1>11. ASSUME RestaurantReads PROVE UNCHANGED restaurantVars
  BY <1>11 DEF RestaurantReads, GetRestaurantPublic, GetRestaurantWithMenu
<1>12. ASSUME NEW s \in Handlers, BeginTask(s) PROVE OnboardingFits'
  BY <1>2, <1>3, <1>12
  DEF BeginTask, UpdateRestaurant, BlockRestaurant, UnblockRestaurant, ApproveRestaurant,
      OpenRestaurant, CloseRestaurant, RejectRestaurant, RowOps
<1> QED
  BY <1>4, <1>5, <1>6, <1>7, <1>8, <1>9, <1>10, <1>11, <1>12 DEF RestaurantsNext, TaskStep, vars

LEMMA OnboardedIsWhole == RowsInv /\ OnboardingFits => OnboardingIsAtomic
BY DEF RowsInv, TasksFit, OnboardingFits, OnboardingIsAtomic, OnboardsNow

\* An account made by onboarding has its restaurant or is deleted again, once
\* its request is over, unless an answer was lost or the service stopped.
THEOREM OnboardingLeavesNoHalf == RestaurantsSpec => []OnboardingIsAtomic
<1>1. RestaurantsInit => OnboardingFits
  <2>1. NoTask.step = "idle"
    BY DEF NoTask
  <2> QED
    BY <2>1 DEF RestaurantsInit, OnboardingFits, OnboardsNow
<1> QED
  BY <1>1, OnboardedIsWhole, RowsAlways, OnboardingNext, PTL DEF RestaurantsSpec, vars

-----------------------------------------------------------------------------
(* Cards.                                                                  *)

\* A reader that holds a current answer, and a current card, show a restaurant
\* the public may see; nobody reads a restaurant that is not there.
CardsFit ==
  /\ \A r \in Rests : rows[r] = None =>
       entry[Card(r)] = "none" /\ \A c \in Readers : lookup[c].key # Card(r)
  /\ \A c \in Readers, r \in Rests :
       lookup[c].key = Card(r) /\ lookup[c].data = "current" => Servable(r)
  /\ CardsAreServable

\* Card keys are keys, tell restaurants apart and are not null.
LEMMA CardKeys ==
  \A r \in Rests : /\ Card(r) \in Keys /\ Card(r) # None
                   /\ \A q \in Rests : Card(q) = Card(r) => q = r
                   /\ \A q \in Rests : Details(q) # Card(r) /\ MenuKey(q) # Card(r)
BY RestaurantsAssumption, CacheAssumption DEF Card, Details, MenuKey

\* New rows, and changes that make entries outdated, do not disturb what is known
\* of the cards of the other restaurants.
LEMMA CardsIgnoreNewRows ==
  ASSUME RestaurantsTypeOK, CacheTypeOK, CardsFit, OnlyOutdates,
         \A r \in Existing : rows'[r] = rows[r]
  PROVE  CardsFit'
<1>1. \A r \in Existing : r \in Existing' /\ Servable(r)' = Servable(r)
  BY DEF Existing, Servable
<1>2. ASSUME NEW r \in Rests, r \notin Existing
      PROVE  entry'[Card(r)] = "none" /\ \A c \in Readers : lookup'[c].key # Card(r)
  BY <1>2, CardKeys DEF CardsFit, Existing, OnlyOutdates
<1>3. CardsAreServable'
  <2> SUFFICES ASSUME NEW x \in Rests, x \in Existing',
                      entry'[Card(x)] \in {"current", "outdated"}
               PROVE  \/ Servable(x)'
                      \/ Card(x) \in missed'
                      \/ \E h \in Handlers : Card(x) \in dropping'[h]
    BY DEF CardsAreServable, Existing, Card
  <2>1. x \in Existing
    BY <1>2
  <2>2. entry[Card(x)] \in {"current", "outdated"}
    BY CardKeys DEF OnlyOutdates
  <2> QED
    BY <1>1, <2>1, <2>2 DEF CardsFit, CardsAreServable, OnlyOutdates
<1>4. ASSUME NEW x \in Rests, rows'[x] = None
      PROVE  entry'[Card(x)] = "none" /\ \A c \in Readers : lookup'[c].key # Card(x)
  BY <1>1, <1>2, <1>4 DEF Existing
<1>5. ASSUME NEW c \in Readers, NEW x \in Rests,
             lookup'[c].key = Card(x), lookup'[c].data = "current"
      PROVE  Servable(x)'
  <2>1. x \in Existing
    BY <1>2, <1>5
  <2> QED
    BY <1>1, <1>5, <2>1 DEF CardsFit, OnlyOutdates
<1> QED
  BY <1>3, <1>4, <1>5 DEF CardsFit, Card

LEMMA InsertCards ==
  ASSUME RestaurantsTypeOK, CacheTypeOK, CardsFit, OnlyOutdates,
         NEW o, NEW p, NEW b, Insert(o, p, b)
  PROVE  CardsFit'
BY CardsIgnoreNewRows DEF Insert, Existing, RestaurantsTypeOK

\* The handler that changes a row takes its card's place in dropping.
LEMMA UpdateCards ==
  ASSUME RowsInv, CardsFit, NEW s \in Handlers, UpdateRow(s)
  PROVE  CardsFit'
<1> DEFINE r == task[s].row
<1>1. r \in Existing /\ r \in Rests /\ rows[r] \in Row
  BY DEF RowsInv, UpdateRow, TasksFit, Existing, RestaurantsTypeOK
<1>2. PICK q \in Rests : q = task[s].row
  BY <1>1
<1>3. /\ \A x \in Rests : x # q => rows'[x] = rows[x]
      /\ rows[q] # None /\ rows'[q] # None
  <2>1. rows' = [rows EXCEPT ![q] = Written(task[s].op, @)]
    BY <1>2 DEF UpdateRow
  <2>2. Written(task[s].op, rows[q]) \in Row
    BY <1>1, <1>2, WrittenKeeps DEF RowsInv, OnlyApprovedServe
  <2> QED
    BY <1>1, <1>2, <2>1, <2>2, RowAssumption DEF RowsInv, RestaurantsTypeOK, Existing
<1>4. \A x \in Rests : x # q => Servable(x)' = Servable(x)
  BY <1>3 DEF Servable
<1>5. Card(q) \in Keys /\ \A x \in Rests : Card(x) \in Keys /\ (x # q => Card(x) # Card(q))
  BY CardKeys
<1>6. /\ OnlyOutdates
      /\ Card(q) \in dropping'[s]
      /\ \A c \in Readers : lookup'[c].key = Card(q) => lookup'[c].data # "current"
  <2>1. Change(s, {Card(q), Details(q), MenuKey(q)}, {Card(q)})
    BY <1>2 DEF UpdateRow
  <2>2. CacheTypeOK /\ {Card(q)} \in SUBSET Keys
    BY <1>5 DEF RowsInv
  <2>3. OnlyOutdates /\ {Card(q)} \subseteq dropping'[s]
    BY <2>1, <2>2, ChangeType
  <2>4. Outdate({Card(q), Details(q), MenuKey(q)})
    BY <2>1 DEF Change
  <2> QED
    BY <2>2, <2>3, <2>4, OutdateType
<1> HIDE DEF r
<1>10. CardsAreServable'
  <2> SUFFICES ASSUME NEW x \in Rests, rows'[x] # None,
                      entry'[Card(x)] \in {"current", "outdated"}
               PROVE  \/ Servable(x)'
                      \/ Card(x) \in missed'
                      \/ \E h \in Handlers : Card(x) \in dropping'[h]
    BY DEF CardsAreServable, Existing, Card
  <2>1. CASE x = q
    BY <1>6, <2>1
  <2>2. CASE x # q
    <3>1. entry[Card(x)] \in {"current", "outdated"} /\ rows[x] # None
      BY <1>3, <1>5, <1>6, <2>2 DEF OnlyOutdates
    <3> QED
      BY <1>4, <1>6, <2>2, <3>1 DEF CardsFit, CardsAreServable, Existing, OnlyOutdates
  <2> QED
    BY <2>1, <2>2
<1>12. ASSUME NEW x \in Rests, rows'[x] = None
       PROVE  entry'[Card(x)] = "none" /\ \A c \in Readers : lookup'[c].key # Card(x)
  BY <1>3, <1>5, <1>6, <1>12 DEF CardsFit, OnlyOutdates
<1>13. ASSUME NEW c \in Readers, NEW x \in Rests,
              lookup'[c].key = Card(x), lookup'[c].data = "current"
       PROVE  Servable(x)'
  BY <1>4, <1>6, <1>13 DEF CardsFit, OnlyOutdates
<1> QED
  BY <1>10, <1>12, <1>13 DEF CardsFit, Card

\* A reader stores what it read: current only if nothing changed meanwhile.
LEMMA StoreCards ==
  ASSUME CacheTypeOK, CardsFit, UNCHANGED restaurantVars, NEW c \in Readers, Store(c)
  PROVE  CardsFit'
<1> DEFINE k == lookup[c].key
<1>1. k \in Keys
  BY DEF Store, CacheTypeOK
<1>2. /\ \A x \in Keys : x # k => entry'[x] = entry[x]
      /\ entry'[k] = "current" => lookup[c].data = "current"
      /\ entry'[k] \in {"current", "late"}
      /\ \A x \in missed : x # k => x \in missed'
      /\ dropping' = dropping
  BY <1>1 DEF Store, CacheTypeOK
<1>3. /\ \A d \in Readers : d # c => lookup'[d] = lookup[d]
      /\ lookup'[c].key = None
  BY DEF Store, CacheTypeOK, NoLookup
<1>4. UNCHANGED rows
  BY DEF restaurantVars
<1> HIDE DEF k
<1>5. CardsAreServable'
  <2> SUFFICES ASSUME NEW x \in Rests, rows[x] # None,
                      entry'[Card(x)] \in {"current", "outdated"}
               PROVE  \/ Servable(x)
                      \/ Card(x) \in missed'
                      \/ \E h \in Handlers : Card(x) \in dropping'[h]
    BY <1>4 DEF CardsAreServable, Existing, Card, Servable
  <2>1. CASE Card(x) = k
    BY <1>2, <2>1 DEF CardsFit, k
  <2>2. CASE Card(x) # k
    BY <1>2, <2>2, CardKeys DEF CardsFit, CardsAreServable, Existing
  <2> QED
    BY <2>1, <2>2
<1>7. ASSUME NEW x \in Rests, rows'[x] = None
      PROVE  entry'[Card(x)] = "none" /\ \A d \in Readers : lookup'[d].key # Card(x)
  <2>1. Card(x) # k /\ entry[Card(x)] = "none" /\ \A d \in Readers : lookup[d].key # Card(x)
    BY <1>4, <1>7 DEF CardsFit, k
  <2> QED
    BY <1>2, <1>3, <2>1, CardKeys
<1>8. ASSUME NEW d \in Readers, NEW x \in Rests,
             lookup'[d].key = Card(x), lookup'[d].data = "current"
      PROVE  Servable(x)
  BY <1>3, <1>8, CardKeys DEF CardsFit
<1> QED
  BY <1>4, <1>5, <1>7, <1>8 DEF CardsFit, Card, Servable

\* Losing an entry, a reader or a deletion that is accounted for breaks nothing.
LEMMA LossCards ==
  ASSUME CacheTypeOK, CardsFit, UNCHANGED restaurantVars,
         \A k \in Keys : entry'[k] \in {"none", entry[k]},
         \A c \in Readers : lookup'[c] \in {NoLookup, lookup[c]},
         \A k \in Keys, s \in Handlers : k \in dropping[s] =>
           k \in dropping'[s] \/ k \in missed' \/ entry'[k] = "none",
         \A k \in missed : k \in missed' \/ entry'[k] = "none"
  PROVE  CardsFit'
<1>1. UNCHANGED rows
  BY DEF restaurantVars
<1>2. NoLookup.key = None
  BY DEF NoLookup
<1>3. CardsAreServable'
  <2> SUFFICES ASSUME NEW x \in Rests, rows[x] # None,
                      entry'[Card(x)] \in {"current", "outdated"}
               PROVE  \/ Servable(x)
                      \/ Card(x) \in missed'
                      \/ \E h \in Handlers : Card(x) \in dropping'[h]
    BY <1>1 DEF CardsAreServable, Existing, Card, Servable
  <2> QED
    BY CardKeys DEF CardsFit, CardsAreServable, Existing
<1>5. ASSUME NEW x \in Rests, rows'[x] = None
      PROVE  entry'[Card(x)] = "none" /\ \A d \in Readers : lookup'[d].key # Card(x)
  BY <1>1, <1>2, <1>5, CardKeys DEF CardsFit
<1>6. ASSUME NEW d \in Readers, NEW x \in Rests,
             lookup'[d].key = Card(x), lookup'[d].data = "current"
      PROVE  Servable(x)
  BY <1>2, <1>6, CardKeys DEF CardsFit
<1> QED
  BY <1>1, <1>3, <1>5, <1>6 DEF CardsFit, Card, Servable

LEMMA ReadCards ==
  ASSUME CacheTypeOK, CardsFit, NEW c \in Readers, NEW r \in Existing,
         GetRestaurantPublic(c, r) \/ GetRestaurantWithMenu(c, r)
  PROVE  CardsFit'
<1>1. r \in Rests /\ rows[r] # None /\ Servable(r)
  BY DEF Existing, GetRestaurantPublic, GetRestaurantWithMenu
<1>2. UNCHANGED <<rows, entry, dropping, missed>>
  BY DEF GetRestaurantPublic, GetRestaurantWithMenu, Read, restaurantVars
<1>3. /\ \A d \in Readers : d # c => lookup'[d] = lookup[d]
      /\ lookup'[c].key \in {Card(r), Details(r)}
  BY DEF GetRestaurantPublic, GetRestaurantWithMenu, Read, CacheTypeOK
<1>4. CardsAreServable'
  BY <1>2 DEF CardsFit, CardsAreServable, Existing, Card, Servable
<1>5. ASSUME NEW x \in Rests, rows'[x] = None
      PROVE  entry'[Card(x)] = "none" /\ \A d \in Readers : lookup'[d].key # Card(x)
  BY <1>1, <1>2, <1>3, <1>5, CardKeys DEF CardsFit
<1>6. ASSUME NEW d \in Readers, NEW x \in Rests,
             lookup'[d].key = Card(x), lookup'[d].data = "current"
      PROVE  Servable(x)
  BY <1>1, <1>3, <1>6, CardKeys DEF CardsFit
<1> QED
  BY <1>2, <1>4, <1>5, <1>6 DEF CardsFit, Card, Servable

LEMMA CardsNext == RowsInv /\ CardsFit /\ [RestaurantsNext]_vars => CardsFit'
<1> SUFFICES ASSUME RowsInv, CardsFit, [RestaurantsNext]_vars PROVE CardsFit'
  OBVIOUS
<1> USE DEF restaurantVars, onboarding
<1>1. RestaurantsTypeOK /\ CacheTypeOK
  BY DEF RowsInv
<1>2. ASSUME UNCHANGED <<rows, cacheVars>> PROVE CardsFit'
  BY <1>1, <1>2, SameCache, CardsIgnoreNewRows
<1>3. ASSUME NEW s \in Handlers, BeginTask(s) PROVE UNCHANGED <<rows, cacheVars>>
  BY <1>3
  DEF BeginTask, UpdateRestaurant, BlockRestaurant, UnblockRestaurant, ApproveRestaurant,
      OpenRestaurant, CloseRestaurant, RejectRestaurant, BeginOn, OnboardRestaurantByAdmin
<1>4. ASSUME NEW s \in Handlers, TaskStep(s) PROVE CardsFit'
  <2>1. CASE InsertOnboarded(s)
    <3>1. OnlyOutdates /\ Insert(task[s].owner, None, TRUE)
      BY <1>1, <2>1, SameCache DEF InsertOnboarded
    <3> QED
      BY <1>1, <3>1, InsertCards
  <2>2. CASE InsertThrows(s) \/ RollBackOwner(s) \/ StopTask(s)
    BY <1>2, <2>2 DEF InsertThrows, RollBackOwner, StopTask
  <2> QED
    BY <1>4, <2>1, <2>2, UpdateCards DEF TaskStep
<1>5. ASSUME Creations PROVE CardsFit'
  <2>1. ASSUME NEW o, NEW p, NEW b, Insert(o, p, b), OnlyOutdates PROVE CardsFit'
    BY <1>1, <2>1, InsertCards
  <2>2. ASSUME NEW o \in Owners, OwnerSignsUp(o) PROVE CardsFit'
    BY <1>2, <2>2 DEF OwnerSignsUp
  <2>3. ASSUME NEW o \in Owners, CreateRestaurant(o) \/ CreateRestaurantByAdmin(o)
        PROVE  CardsFit'
    <3>1. OnlyOutdates
      BY <1>1, <2>3, SameCache DEF CreateRestaurant, CreateRestaurantByAdmin
    <3> QED
      BY <2>1, <2>3, <3>1 DEF CreateRestaurant, CreateRestaurantByAdmin
  <2>4. ASSUME NEW p \in Existing, (\E o \in Owners : CreateBranch(o, p)) \/ CreateBranchByAdmin(p)
        PROVE  CardsFit'
    <3>1. OnlyOutdates
      BY <1>1, <2>4, UnseenType DEF CreateBranch, CreateBranchByAdmin
    <3> QED
      BY <2>1, <2>4, <3>1 DEF CreateBranch, CreateBranchByAdmin
  <2> QED
    BY <1>5, <2>2, <2>3, <2>4 DEF Creations
<1>6. ASSUME CacheNext, UNCHANGED restaurantVars PROVE CardsFit'
  <2>1. ASSUME NEW c \in Readers, Store(c) PROVE CardsFit'
    BY <1>1, <1>6, <2>1, StoreCards
  <2>2. ASSUME NEW c \in Readers, StoreFails(c) PROVE CardsFit'
    BY <1>1, <1>6, <2>2, LossCards DEF StoreFails, CacheTypeOK
  <2>3. ASSUME NEW s \in Handlers, Drop(s) PROVE CardsFit'
    <3>1. /\ \A k \in Keys : entry'[k] = IF k \in dropping[s] THEN "none" ELSE entry[k]
          /\ missed' = missed \ dropping[s] /\ missed \subseteq Keys
          /\ \A x \in Handlers : x # s => dropping'[x] = dropping[x]
          /\ lookup' = lookup
      BY <1>1, <2>3 DEF Drop, CacheTypeOK
    <3> QED
      BY <1>1, <1>6, <3>1, LossCards
  <2>4. ASSUME NEW s \in Handlers, DropFails(s) PROVE CardsFit'
    <3>1. /\ missed' = missed \cup dropping[s]
          /\ \A x \in Handlers : x # s => dropping'[x] = dropping[x]
          /\ UNCHANGED <<entry, lookup>>
      BY <1>1, <2>4 DEF DropFails, CacheTypeOK
    <3> QED
      BY <1>1, <1>6, <3>1, LossCards
  <2>5. ASSUME NEW k \in Keys, Expire(k) PROVE CardsFit'
    <3>1. /\ \A x \in Keys : entry'[x] = IF x = k THEN "none" ELSE entry[x]
          /\ missed' = missed \ {k} /\ missed \subseteq Keys
          /\ UNCHANGED <<dropping, lookup>>
      BY <1>1, <2>5 DEF Expire, CacheTypeOK
    <3> QED
      BY <1>1, <1>6, <3>1, LossCards
  <2> QED
    BY <1>6, <2>1, <2>2, <2>3, <2>4, <2>5 DEF CacheNext
<1>7. ASSUME RestaurantReads PROVE CardsFit'
  BY <1>1, <1>7, ReadCards DEF RestaurantReads
<1> QED
  BY <1>2, <1>3, <1>4, <1>5, <1>6, <1>7 DEF RestaurantsNext, vars

LEMMA CardsAlways == RestaurantsSpec => []CardsFit
<1>1. RestaurantsInit /\ CacheInit => CardsFit
  <2> SUFFICES ASSUME RestaurantsInit, CacheInit PROVE CardsFit
    OBVIOUS
  <2>1. /\ \A r \in Rests : rows[r] = None
        /\ \A k \in Keys : entry[k] = "none"
        /\ \A c \in Readers : lookup[c].key = None
    BY DEF RestaurantsInit, CacheInit, NoLookup
  <2> QED
    BY <2>1, CardKeys DEF CardsFit, CardsAreServable, Existing
<1> QED
  BY <1>1, RowsAlways, CardsNext, PTL DEF RestaurantsSpec, vars

\* A card shows a restaurant the public may not see only while its deletion is
\* under way or after it failed, or when a reader was slow to store it.
THEOREM CardsStayServable == RestaurantsSpec => []CardsAreServable
<1>1. CardsFit => CardsAreServable
  BY DEF CardsFit
<1> QED
  BY <1>1, CardsAlways, PTL

-----------------------------------------------------------------------------
(* Ratings.                                                                *)

\* A recomputation that no commit overtook saw the other visible ratings, and
\* one transaction at a time holds the restaurant's row.
PostFits(p) ==
  LET own == IF post[p].op = "create" THEN {post[p].order} ELSE {} IN
    /\ post[p].step # "idle" => post[p].op # "none" /\ post[p].order \in RatedOrders
    /\ post[p].late => post[p].step \in {"lock", "commit"}
    /\ post[p].step \in {"lock", "commit"} /\ ~post[p].late =>
         post[p].seen = (Visible \ {post[p].order}) \cup own

OneCommits ==
  \A p, q \in Posts : post[p].step = "commit" /\ post[q].step = "commit" => p = q

RatingsInv ==
  RatingsTypeOK /\ (\A p \in Posts : PostFits(p)) /\ OneCommits /\ RatingsExact

\* A slot is given another state.
LEMMA PostChanges ==
  ASSUME RatingsInv, NEW p \in Posts, NEW q \in Post, UNCHANGED <<rating, counted, raced>>,
         post' = [post EXCEPT ![p] = q], posts' \in 0..MaxPosts, PostFits(p)',
         q.step = "commit" => \A x \in Posts : post[x].step = "commit" => x = p
  PROVE  RatingsInv'
<1>1. RatingsTypeOK'
  BY DEF RatingsInv, RatingsTypeOK
<1>2. \A x \in Posts : x # p => post'[x] = post[x]
  BY DEF RatingsInv, RatingsTypeOK
<1>3. post'[p] = q
  BY DEF RatingsInv, RatingsTypeOK
<1>4. ASSUME NEW x \in Posts, x # p PROVE PostFits(x)'
  BY <1>2, <1>4 DEF RatingsInv, PostFits, Visible
<1>5. OneCommits'
  BY <1>2, <1>3 DEF RatingsInv, OneCommits
<1> QED
  BY <1>1, <1>4, <1>5 DEF RatingsInv, RatingsExact, Visible

LEMMA LeaveKeeps ==
  ASSUME RatingsInv, NEW p \in Posts, Leave(p), UNCHANGED <<rating, counted, raced, posts>>
  PROVE  RatingsInv'
<1>1. NoPost \in Post /\ NoPost.step = "idle" /\ NoPost.late = FALSE
  BY DEF NoPost, Post
<1>2. post' = [post EXCEPT ![p] = NoPost] /\ post'[p] = NoPost
  BY DEF Leave, RatingsInv, RatingsTypeOK
<1> QED
  BY <1>1, <1>2, PostChanges DEF PostFits, RatingsInv, RatingsTypeOK

LEMMA RatingsStep == RatingsInv /\ RatingsNext => RatingsInv'
<1> SUFFICES ASSUME RatingsInv, NEW p \in Posts,
                    \/ \E o \in RatedOrders : SubmitRating(p, o) \/ AdminDeleteRating(p, o)
                    \/ FindByOrderId(p) \/ WriteRating(p) \/ RecalculateAvg(p)
                    \/ LockRestaurant(p) \/ CommitRating(p) \/ LosePost(p)
             PROVE  RatingsInv'
  BY DEF RatingsNext
<1>1. post \in [Posts -> Post] /\ post[p] \in Post /\ posts \in 0..MaxPosts
  BY DEF RatingsInv, RatingsTypeOK
<1>2. PostFits(p)
  BY DEF RatingsInv
<1>3. ASSUME NEW o \in RatedOrders, NEW op \in {"create", "hide"}, NEW t \in {"find", "write"},
             BeginPost(p, op, t, o)
      PROVE  RatingsInv'
  <2> DEFINE q == [post[p] EXCEPT !.op = op, !.step = t, !.order = o]
  <2>1. q \in Post /\ q.step = t /\ q.op = op /\ q.order = o /\ q.late = FALSE
    BY <1>1, <1>3 DEF BeginPost, Post, NoPost
  <2>2. post' = [post EXCEPT ![p] = q] /\ post'[p] = q
    BY <1>1, <1>3 DEF BeginPost, Post
  <2>3. posts' \in 0..MaxPosts
    BY <1>1, <1>3, RatingsAssumption DEF BeginPost
  <2> HIDE DEF q
  <2> QED
    BY <1>3, <2>1, <2>2, <2>3, PostChanges DEF BeginPost, PostFits
<1>4. ASSUME NEW t \in {"write", "recalc"}, Move(p, t), post[p].step \in {"find", "write"},
             UNCHANGED <<rating, counted, raced, posts>>
      PROVE  RatingsInv'
  <2> DEFINE q == [post[p] EXCEPT !.step = t]
  <2>1. /\ q \in Post /\ q.step = t /\ q.op = post[p].op /\ q.order = post[p].order
        /\ q.late = FALSE
    BY <1>1, <1>2, <1>4 DEF Post, PostFits
  <2>2. post' = [post EXCEPT ![p] = q] /\ post'[p] = q
    BY <1>1, <1>4 DEF Move, Post
  <2> HIDE DEF q
  <2> QED
    BY <1>1, <1>2, <1>4, <2>1, <2>2, PostChanges DEF PostFits
<1>5. ASSUME RecalculateAvg(p) PROVE RatingsInv'
  <2> DEFINE own == IF post[p].op = "create" THEN {post[p].order} ELSE {}
             saw == (Visible \ {post[p].order}) \cup own
             q == [post[p] EXCEPT !.step = "lock", !.seen = saw]
  <2>1. post[p].order \in RatedOrders /\ post[p].op # "none" /\ saw \subseteq RatedOrders
    BY <1>2, <1>5 DEF RecalculateAvg, PostFits, Visible
  <2> HIDE DEF saw
  <2>2. /\ q \in Post /\ q.step = "lock" /\ q.op = post[p].op /\ q.order = post[p].order
        /\ q.seen = saw
    BY <1>1, <2>1 DEF Post
  <2>3. post' = [post EXCEPT ![p] = q] /\ post'[p] = q
    BY <1>1, <1>5 DEF RecalculateAvg, Post, saw
  <2> HIDE DEF q
  <2>4. PostFits(p)'
    BY <1>5, <2>1, <2>2, <2>3 DEF PostFits, RecalculateAvg, Visible, saw
  <2> QED
    BY <1>1, <1>5, <2>2, <2>3, <2>4, PostChanges DEF RecalculateAvg
<1>6. ASSUME LockRestaurant(p) PROVE RatingsInv'
  <2> DEFINE q == [post[p] EXCEPT !.step = "commit"]
  <2>1. /\ q \in Post /\ q.step = "commit" /\ q.op = post[p].op /\ q.order = post[p].order
        /\ q.seen = post[p].seen /\ q.late = post[p].late
    BY <1>1 DEF Post
  <2>2. post' = [post EXCEPT ![p] = q] /\ post'[p] = q
    BY <1>1, <1>6 DEF LockRestaurant, Move, Post
  <2> HIDE DEF q
  <2>3. PostFits(p)'
    BY <1>2, <1>6, <2>1, <2>2 DEF PostFits, LockRestaurant, Visible
  <2> QED
    BY <1>1, <1>6, <2>1, <2>2, <2>3, PostChanges DEF LockRestaurant
<1>7. ASSUME CommitRating(p) PROVE RatingsInv'
  <2> DEFINE o == post[p].order
             own == IF post[p].op = "create" THEN {o} ELSE {}
  <2>1. o \in RatedOrders /\ post[p].op \in {"create", "hide"} /\ post[p].step = "commit"
    BY <1>1, <1>2, <1>7 DEF CommitRating, PostFits, Post
  <2>2. rating' = [rating EXCEPT ![o] = IF post[p].op = "create" THEN "visible" ELSE "hidden"]
    BY <1>7 DEF CommitRating, Effect
  <2>3. Visible' = (Visible \ {o}) \cup own
    BY <2>1, <2>2 DEF Visible, RatingsInv, RatingsTypeOK
  <2>4. /\ post'[p] = NoPost
        /\ \A x \in Posts : x # p =>
             post'[x] = [post[x] EXCEPT !.late = post[x].late \/ post[x].step = "lock"]
    BY <1>1, <1>7 DEF CommitRating, Post
  <2>5. RatingsTypeOK'
    <3>1. NoPost \in Post /\ \A x \in Posts :
            [post[x] EXCEPT !.late = post[x].late \/ post[x].step = "lock"] \in Post
      BY <1>1 DEF Post, NoPost
    <3>2. post' \in [Posts -> Post]
      BY <1>1, <1>7, <3>1 DEF CommitRating
    <3> QED
      BY <1>1, <1>7, <2>1, <2>2, <3>2 DEF CommitRating, RatingsInv, RatingsTypeOK, Post
  <2>6. ASSUME NEW x \in Posts, x # p
        PROVE  /\ post'[x].step = post[x].step /\ post'[x].op = post[x].op
               /\ post'[x].order = post[x].order
               /\ post'[x].late = (post[x].late \/ post[x].step = "lock")
    BY <1>1, <2>4, <2>6 DEF Post
  <2>7. ASSUME NEW x \in Posts PROVE PostFits(x)'
    <3>1. CASE x = p
      BY <2>4, <3>1 DEF PostFits, NoPost
    <3>2. CASE x # p
      <4>1. post[x].step # "commit" /\ PostFits(x)
        BY <2>1, <3>2 DEF RatingsInv, OneCommits
      <4> QED
        BY <2>6, <3>2, <4>1 DEF PostFits
    <3> QED
      BY <3>1, <3>2
  <2>8. OneCommits'
    <3>1. \A x \in Posts : post'[x].step # "commit"
      BY <2>1, <2>4, <2>6 DEF RatingsInv, OneCommits, NoPost
    <3> QED
      BY <3>1 DEF OneCommits
  <2>9. RatingsExact'
    BY <1>2, <1>7, <2>1, <2>3 DEF CommitRating, RatingsExact, PostFits
  <2> QED
    BY <2>5, <2>7, <2>8, <2>9 DEF RatingsInv
<1>8. CASE LosePost(p)
  BY <1>8, LeaveKeeps DEF LosePost
<1>9. CASE FindByOrderId(p)
  BY <1>4, <1>9, LeaveKeeps DEF FindByOrderId
<1>10. CASE WriteRating(p)
  BY <1>4, <1>10, LeaveKeeps DEF WriteRating
<1> QED
  BY <1>3, <1>5, <1>6, <1>7, <1>8, <1>9, <1>10 DEF SubmitRating, AdminDeleteRating

-----------------------------------------------------------------------------
(* Menus.                                                                  *)

\* What a handler looked up is of the restaurant it works for: rows keep their
\* restaurant, and stay here when they are deleted.
CategoryOf(c, r) == c \in Cats => cats[c] # None /\ cats[c].rest = r

CategoryOps == {"createCategory", "updateCategory", "deleteCategory"}
ItemOps == {"createItem", "updateItem", "deleteItem"}

CategoryChore(ch) ==
  ch.op \in CategoryOps =>
    /\ ch.step = "write" /\ ch.rest \in Rests /\ CategoryOf(ch.cat, ch.rest)
    /\ ch.op = "createCategory" => ch.cat # Keep
    /\ ch.op # "createCategory" => ch.id \in Cats /\ CategoryOf(ch.id, ch.rest)

ItemChore(ch) ==
  ch.op \in ItemOps =>
    /\ ch.rest \in Rests
    /\ ch.step # "write" \/ ch.op = "createItem" => ch.cat # Keep /\ ch.sub # Keep
    /\ ch.step # "category" => CategoryOf(ch.cat, ch.rest)
    /\ ch.step = "write" => CategoryOf(ch.sub, ch.rest)
    /\ ch.op # "createItem" =>
         ch.id \in Items /\ items[ch.id] # None /\ items[ch.id].rest = ch.rest

OptionChore(ch) ==
  /\ ch.op \notin ItemOps => ch.step = "write"
  /\ ch.op \in {"updateGroup", "deleteGroup", "createOption"} =>
       ch.id \in Groups /\ groups[ch.id] # None
  /\ ch.op \in {"updateOption", "deleteOption"} =>
       ch.id \in Options /\ options[ch.id] # None

ChoreFits(ch) ==
  ch.step # "idle" => CategoryChore(ch) /\ ItemChore(ch) /\ OptionChore(ch)

ChoresFit == \A s \in Handlers : ChoreFits(chore[s])

MenuInv == MenuTypeOK /\ ChoresFit /\ MenusStayApart

\* A step keeps the rows: none is made null, and none changes its restaurant.
RowsKept ==
  /\ \A c \in Cats : cats[c] # None => cats'[c] # None /\ cats'[c].rest = cats[c].rest
  /\ \A i \in Items : items[i] # None => items'[i] # None /\ items'[i].rest = items[i].rest
  /\ \A g \in Groups : groups[g] # None => groups'[g] # None
  /\ \A o \in Options : options[o] # None => options'[o] # None

LEMMA ChoreKept == RowsKept => \A ch : ChoreFits(ch) => ChoreFits(ch)'
BY DEF RowsKept, ChoreFits, CategoryChore, ItemChore, OptionChore, CategoryOf

LEMMA ChoresAfter ==
  ASSUME MenuTypeOK, ChoresFit, RowsKept, NEW s \in Handlers, NEW ch \in Chore,
         chore' = [chore EXCEPT ![s] = ch], ChoreFits(ch)'
  PROVE  chore' \in [Handlers -> Chore] /\ ChoresFit'
<1>1. chore' \in [Handlers -> Chore] /\ chore'[s] = ch
  BY DEF MenuTypeOK
<1>2. \A x \in Handlers : x # s => chore'[x] = chore[x]
  BY DEF MenuTypeOK
<1>3. ASSUME NEW x \in Handlers, x # s PROVE ChoreFits(chore[x])'
  <2>1. ChoreFits(chore[x]) /\ chore'[x] = chore[x]
    BY <1>2, <1>3 DEF ChoresFit
  <2> QED
    BY <2>1, ChoreKept
<1> QED
  BY <1>1, <1>3 DEF ChoresFit

LEMMA NoChoreFits == NoChore \in Chore /\ ChoreFits(NoChore) /\ ChoreFits(NoChore)'
BY DEF NoChore, Chore, ChoreFits

\* The tables keep their types and references: the invariant, table by table.
TablesOK ==
  /\ cats \in [Cats -> Cat \cup {None}]
  /\ items \in [Items -> Item \cup {None}]
  /\ groups \in [Groups -> Group \cup {None}]
  /\ options \in [Options -> Option \cup {None}]

LiveCat(c, r) == c \in Cats /\ cats[c] # None /\ cats[c].live /\ cats[c].rest = r

CatsApart ==
  \A c \in Cats : cats[c] # None /\ cats[c].live /\ cats[c].parent # None =>
    LiveCat(cats[c].parent, cats[c].rest)

ItemsApart ==
  \A i \in Items : items[i] # None /\ items[i].live =>
    /\ items[i].cat # None => LiveCat(items[i].cat, items[i].rest)
    /\ items[i].sub # None => LiveCat(items[i].sub, items[i].rest)

GroupsApart ==
  \A g \in Groups : groups[g] # None /\ groups[g].live =>
    items[groups[g].item] # None /\ items[groups[g].item].live

OptionsApart ==
  \A o \in Options : options[o] # None /\ options[o].live =>
    groups[options[o].group] # None /\ groups[options[o].group].live

LEMMA TablesApart ==
  TablesOK => (MenusStayApart <=> CatsApart /\ ItemsApart /\ GroupsApart /\ OptionsApart)
<1> SUFFICES ASSUME TablesOK
             PROVE  MenusStayApart <=> CatsApart /\ ItemsApart /\ GroupsApart /\ OptionsApart
  OBVIOUS
<1>1. /\ Live(cats) = {c \in Cats : cats[c] # None /\ cats[c].live}
      /\ Live(items) = {i \in Items : items[i] # None /\ items[i].live}
      /\ Live(groups) = {g \in Groups : groups[g] # None /\ groups[g].live}
      /\ Live(options) = {o \in Options : options[o] # None /\ options[o].live}
  BY DEF Live, TablesOK
<1>2. \A g \in Groups : groups[g] # None => groups[g].item \in Items
  BY DEF TablesOK, Group
<1>3. \A o \in Options : options[o] # None => options[o].group \in Groups
  BY DEF TablesOK, Option
<1>4. (\A i \in Live(items) : \A c \in {items[i].cat, items[i].sub} \ {None} :
         c \in Live(cats) /\ cats[c].rest = items[i].rest) <=> ItemsApart
  BY <1>1 DEF ItemsApart, LiveCat
<1>5. (\A c \in Live(cats) : cats[c].parent # None =>
         cats[c].parent \in Live(cats) /\ cats[cats[c].parent].rest = cats[c].rest) <=> CatsApart
  BY <1>1 DEF CatsApart, LiveCat
<1>6. (\A g \in Live(groups) : groups[g].item \in Live(items)) <=> GroupsApart
  BY <1>1, <1>2 DEF GroupsApart
<1>7. (\A o \in Live(options) : options[o].group \in Live(groups)) <=> OptionsApart
  BY <1>1, <1>3 DEF OptionsApart
<1> QED
  BY <1>4, <1>5, <1>6, <1>7 DEF MenusStayApart

TablesInv == TablesOK /\ CatsApart /\ ItemsApart /\ GroupsApart /\ OptionsApart

LEMMA MenuTablesInv ==
  MenuInv <=> /\ TablesInv /\ ChoresFit
              /\ chore \in [Handlers -> Chore] /\ chores \in 0..MaxChores
BY TablesApart DEF MenuInv, MenuTypeOK, TablesInv, TablesOK

LEMMA MenuTablesInvNext ==
  (MenuInv <=> /\ TablesInv /\ ChoresFit
               /\ chore \in [Handlers -> Chore] /\ chores \in 0..MaxChores)'
BY MenuTablesInv, PTL

LEMMA SameTables ==
  TablesInv /\ UNCHANGED menuTables => TablesInv' /\ RowsKept
BY DEF TablesInv, TablesOK, CatsApart, ItemsApart, GroupsApart, OptionsApart, LiveCat,
       menuTables, RowsKept

\* A handler that ends leaves the invariant to the tables.
LEMMA EndKeeps ==
  ASSUME MenuInv, NEW s \in Handlers, EndChore(s), TablesInv', RowsKept
  PROVE  MenuInv'
<1>1. chore' \in [Handlers -> Chore] /\ ChoresFit'
  BY NoChoreFits, ChoresAfter DEF EndChore, MenuInv
<1> QED
  BY <1>1, MenuTablesInvNext DEF MenuInv, MenuTypeOK, EndChore

LEMMA StepKeeps ==
  ASSUME MenuInv, NEW s \in Handlers, NEW ch \in Chore, ChoreFits(ch),
         chore' = [chore EXCEPT ![s] = ch], chores' \in 0..MaxChores, UNCHANGED menuTables
  PROVE  MenuInv'
<1>1. TablesInv' /\ RowsKept
  BY MenuTablesInv, SameTables
<1>2. ChoreFits(ch)'
  BY <1>1, ChoreKept
<1>3. chore' \in [Handlers -> Chore] /\ ChoresFit'
  BY <1>1, <1>2, ChoresAfter DEF MenuInv
<1> QED
  BY <1>1, <1>3, MenuTablesInvNext

LEMMA BeginKeeps ==
  ASSUME MenuInv, NEW s \in Handlers, NEW ch \in Chore, ChoreFits(ch), BeginChore(s, ch)
  PROVE  MenuInv'
<1>1. chores' \in 0..MaxChores
  BY MenuAssumption DEF BeginChore, MenuInv, MenuTypeOK
<1> QED
  BY <1>1, StepKeeps DEF BeginChore

LEMMA NothingDoneKeeps ==
  ASSUME MenuInv, NEW s \in Handlers, NothingDone(s) PROVE MenuInv'
BY SameTables, MenuTablesInv, EndKeeps DEF NothingDone

\* The rows an INSERT adds, and the fields a record keeps when others change.
LEMMA MenuRows ==
  /\ \A c \in Cat : c # None /\ c.rest \in Rests /\ c.parent \in Cats \cup {None}
                    /\ c.live \in BOOLEAN
  /\ \A i \in Item : i # None /\ i.rest \in Rests /\ i.cat \in Cats \cup {None}
                     /\ i.sub \in Cats \cup {None} /\ i.live \in BOOLEAN
  /\ \A g \in Group : g # None /\ g.item \in Items /\ g.fits \in BOOLEAN /\ g.live \in BOOLEAN
  /\ \A o \in Option : o # None /\ o.group \in Groups /\ o.live \in BOOLEAN
BY MenuRowAssumption DEF Cat, Item, Group, Option

\* What the handlers of slot s hold, spelled out.
LEMMA ChoreTypes ==
  ASSUME MenuInv, NEW s \in Handlers
  PROVE  /\ chore[s] \in Chore /\ ChoreFits(chore[s])
         /\ chore[s].rest \in Rests \cup {None}
         /\ chore[s].cat \in Cats \cup {None, Keep}
         /\ chore[s].sub \in Cats \cup {None, Keep}
BY DEF MenuInv, MenuTypeOK, ChoresFit, Chore

LEMMA InsertCategoryKeeps ==
  ASSUME MenuInv, NEW s \in Handlers, InsertCategory(s) PROVE MenuInv'
<1> DEFINE ch == chore[s]
<1>1. TablesInv /\ MenuTypeOK /\ TablesOK
  BY MenuTablesInv DEF MenuInv, TablesInv
<1>2. ch.rest \in Rests /\ ch.cat \in Cats \cup {None} /\ CategoryOf(ch.cat, ch.rest)
  BY ChoreTypes DEF InsertCategory, At, ChoreFits, CategoryChore, CategoryOps
<1>3. CASE NothingDone(s)
  BY <1>3, NothingDoneKeeps
<1>4. ASSUME NEW c \in Unborn(cats), Refers(cats, ch.cat),
             cats' = [cats EXCEPT ![c] = [rest |-> ch.rest, parent |-> ch.cat, live |-> TRUE]],
             MenuChanged(s), UNCHANGED <<items, groups, options>>
      PROVE  MenuInv'
  <2> DEFINE row == [rest |-> ch.rest, parent |-> ch.cat, live |-> TRUE]
  <2>1. c \in Cats /\ cats[c] = None
    BY <1>1, <1>4 DEF Unborn, TablesOK
  <2>2. row \in Cat /\ row # None
    BY <1>2, MenuRows DEF Cat
  <2>3. ch.cat # None => LiveCat(ch.cat, ch.rest)
    BY <1>1, <1>2, <1>4 DEF Refers, Live, LiveCat, CategoryOf, TablesOK
  <2>4. row.rest = ch.rest /\ row.parent = ch.cat /\ row.live
    OBVIOUS
  <2>5. cats' = [cats EXCEPT ![c] = row]
    BY <1>4
  <2> HIDE DEF row, ch
  <2>6. TablesOK'
    BY <1>1, <1>4, <2>1, <2>2, <2>5 DEF TablesOK
  <2>7. cats'[c] = row /\ \A d \in Cats : d # c => cats'[d] = cats[d]
    BY <1>1, <2>1, <2>5 DEF TablesOK
  <2>8. \A d, r : LiveCat(d, r) => LiveCat(d, r)'
    BY <2>1, <2>7 DEF LiveCat
  <2>9. CatsApart'
    BY <1>1, <2>3, <2>4, <2>7, <2>8 DEF CatsApart, TablesInv
  <2>10. ItemsApart'
    BY <1>1, <1>4, <2>8 DEF ItemsApart, TablesInv
  <2>11. TablesInv' /\ RowsKept
    BY <1>1, <1>4, <2>1, <2>6, <2>7, <2>9, <2>10
    DEF TablesInv, GroupsApart, OptionsApart, RowsKept
  <2> QED
    BY <1>4, <2>11, EndKeeps DEF MenuChanged
<1> QED
  BY <1>3, <1>4 DEF InsertCategory

LEMMA UpdateCategoryKeeps ==
  ASSUME MenuInv, NEW s \in Handlers, UpdateCategoryRow(s) PROVE MenuInv'
<1> DEFINE ch == chore[s]
           p == Given(ch.cat, cats[ch.id].parent)
<1>1. TablesInv /\ MenuTypeOK /\ TablesOK
  BY MenuTablesInv DEF MenuInv, TablesInv
<1>2. /\ ch.rest \in Rests /\ CategoryOf(ch.cat, ch.rest)
      /\ ch.id \in Cats /\ cats[ch.id] # None /\ cats[ch.id].rest = ch.rest
      /\ ch.cat \in Cats \cup {None, Keep}
  BY ChoreTypes DEF UpdateCategoryRow, At, ChoreFits, CategoryChore, CategoryOps, CategoryOf
<1>3. CASE NothingDone(s)
  BY <1>3, NothingDoneKeeps
<1>4. ASSUME ch.id \in Live(cats), Refers(cats, p),
             cats' = [cats EXCEPT ![ch.id].parent = p],
             MenuChanged(s), UNCHANGED <<items, groups, options>>
      PROVE  MenuInv'
  <2>1. PICK c \in Cats : c = ch.id
    BY <1>2
  <2>2. cats[c] \in Cat /\ cats[c].live /\ cats[c].rest = ch.rest /\ cats[c] # None
    BY <1>1, <1>2, <1>4, <2>1 DEF Live, TablesOK
  <2>3. p # None => LiveCat(p, ch.rest)
    <3>1. CASE ch.cat = Keep
      BY <1>1, <2>1, <2>2, <3>1 DEF Given, TablesInv, CatsApart
    <3>2. CASE ch.cat # Keep
      BY <1>1, <1>2, <1>4, <3>2 DEF Given, Refers, Live, LiveCat, CategoryOf, TablesOK
    <3> QED
      BY <3>1, <3>2
  <2>4. p \in Cats \cup {None}
    BY <2>3 DEF LiveCat
  <2> HIDE DEF p
  <2> DEFINE row == [cats[c] EXCEPT !.parent = p]
  <2>5. row \in Cat /\ row.rest = ch.rest /\ row.parent = p /\ row.live /\ row # None
    BY <2>2, <2>4, MenuRows DEF Cat
  <2>6. cats' = [cats EXCEPT ![c] = row]
    BY <1>4, <2>1
  <2> HIDE DEF row, ch
  <2>7. TablesOK'
    BY <1>1, <1>4, <2>5, <2>6 DEF TablesOK
  <2>8. cats'[c] = row /\ \A d \in Cats : d # c => cats'[d] = cats[d]
    BY <1>1, <2>6 DEF TablesOK
  <2>9. \A d, r : LiveCat(d, r) => LiveCat(d, r)'
    BY <2>2, <2>5, <2>8 DEF LiveCat
  <2>10. CatsApart'
    BY <1>1, <2>3, <2>5, <2>8, <2>9 DEF CatsApart, TablesInv
  <2>11. ItemsApart'
    BY <1>1, <1>4, <2>9 DEF ItemsApart, TablesInv
  <2>12. TablesInv' /\ RowsKept
    BY <1>1, <1>4, <2>2, <2>5, <2>7, <2>8, <2>10, <2>11
    DEF TablesInv, GroupsApart, OptionsApart, RowsKept
  <2> QED
    BY <1>4, <2>12, EndKeeps DEF MenuChanged
<1> QED
  BY <1>3, <1>4 DEF UpdateCategoryRow

LEMMA DeleteCategoryKeeps ==
  ASSUME MenuInv, NEW s \in Handlers, DeleteCategoryRow(s) PROVE MenuInv'
<1>1. TablesInv /\ MenuTypeOK /\ TablesOK
  BY MenuTablesInv DEF MenuInv, TablesInv
<1>2. PICK c \in Cats : c = chore[s].id
  BY ChoreTypes DEF DeleteCategoryRow, At, ChoreFits, CategoryChore, CategoryOps
<1> DEFINE Null(x) == IF x = c THEN None ELSE x
<1>3. \A d \in Cats : cats'[d] = IF cats[d] = None THEN None
                                 ELSE [cats[d] EXCEPT !.parent = Null(@), !.live = @ /\ d # c]
  BY <1>2 DEF DeleteCategoryRow
<1>4. \A i \in Items : items'[i] = IF items[i] = None THEN None
                                   ELSE [items[i] EXCEPT !.cat = Null(@), !.sub = Null(@)]
  BY <1>2 DEF DeleteCategoryRow
<1>5. \A d \in Cats : cats[d] = None => cats'[d] = None
  BY <1>3
<1>6. ASSUME NEW d \in Cats, cats[d] # None
      PROVE  /\ cats'[d] \in Cat /\ cats'[d] # None /\ cats'[d].rest = cats[d].rest
             /\ cats'[d].parent = Null(cats[d].parent)
             /\ cats'[d].live = (cats[d].live /\ d # c)
  <2>1. cats[d] \in Cat
    BY <1>1, <1>6 DEF TablesOK
  <2>2. cats'[d] = [cats[d] EXCEPT !.parent = Null(@), !.live = @ /\ d # c]
    BY <1>3, <1>6
  <2>3. cats'[d] \in Cat
    BY <2>1, <2>2 DEF Cat
  <2> QED
    BY <2>1, <2>2, <2>3, MenuRows DEF Cat
<1>7. \A i \in Items : items[i] = None => items'[i] = None
  BY <1>4
<1>8. ASSUME NEW i \in Items, items[i] # None
      PROVE  /\ items'[i] \in Item /\ items'[i] # None /\ items'[i].rest = items[i].rest
             /\ items'[i].cat = Null(items[i].cat) /\ items'[i].sub = Null(items[i].sub)
             /\ items'[i].live = items[i].live
  <2>1. items[i] \in Item
    BY <1>1, <1>8 DEF TablesOK
  <2>2. items'[i] = [items[i] EXCEPT !.cat = Null(@), !.sub = Null(@)]
    BY <1>4, <1>8
  <2>3. items'[i] \in Item
    BY <2>1, <2>2 DEF Item
  <2> QED
    BY <2>1, <2>2, <2>3, MenuRows DEF Item
<1>9. cats' \in [Cats -> Cat \cup {None}]
  <2>1. cats' = [d \in Cats |-> cats'[d]]
    BY DEF DeleteCategoryRow
  <2> QED
    BY <1>5, <1>6, <2>1
<1>10. items' \in [Items -> Item \cup {None}]
  <2>1. items' = [i \in Items |-> items'[i]]
    BY DEF DeleteCategoryRow
  <2> QED
    BY <1>7, <1>8, <2>1
<1>11. UNCHANGED <<groups, options>> /\ MenuChanged(s)
  BY DEF DeleteCategoryRow
<1>12. \A d, r : d # c /\ LiveCat(d, r) => LiveCat(d, r)'
  BY <1>6 DEF LiveCat
<1>13. CatsApart'
  BY <1>1, <1>5, <1>6, <1>12 DEF CatsApart, TablesInv
<1>14. ItemsApart'
  BY <1>1, <1>7, <1>8, <1>12 DEF ItemsApart, TablesInv
<1>15. GroupsApart'
  <2>1. \A g \in Groups : groups[g] # None => groups[g].item \in Items
    BY <1>1 DEF TablesOK, Group
  <2> QED
    BY <1>1, <1>8, <1>11, <2>1 DEF GroupsApart, TablesInv
<1>16. TablesInv'
  BY <1>1, <1>9, <1>10, <1>11, <1>13, <1>14, <1>15 DEF TablesInv, TablesOK, OptionsApart
<1>17. RowsKept
  BY <1>6, <1>8, <1>11 DEF RowsKept
<1> QED
  BY <1>11, <1>16, <1>17, EndKeeps DEF MenuChanged

LEMMA InsertItemKeeps ==
  ASSUME MenuInv, NEW s \in Handlers, InsertItem(s) PROVE MenuInv'
<1> DEFINE ch == chore[s]
<1>1. TablesInv /\ MenuTypeOK /\ TablesOK
  BY MenuTablesInv DEF MenuInv, TablesInv
<1>2. /\ ch.rest \in Rests /\ ch.cat \in Cats \cup {None} /\ ch.sub \in Cats \cup {None}
      /\ CategoryOf(ch.cat, ch.rest) /\ CategoryOf(ch.sub, ch.rest)
  BY ChoreTypes DEF InsertItem, At, ChoreFits, ItemChore, ItemOps
<1>3. CASE NothingDone(s)
  BY <1>3, NothingDoneKeeps
<1>4. ASSUME NEW i \in Unborn(items), Refers(cats, ch.cat), Refers(cats, ch.sub),
             items' = [items EXCEPT ![i] = [rest |-> ch.rest, cat |-> ch.cat,
                                            sub |-> ch.sub, live |-> TRUE]],
             MenuChanged(s), UNCHANGED <<cats, groups, options>>
      PROVE  MenuInv'
  <2> DEFINE row == [rest |-> ch.rest, cat |-> ch.cat, sub |-> ch.sub, live |-> TRUE]
  <2>1. i \in Items /\ items[i] = None
    BY <1>1, <1>4 DEF Unborn, TablesOK
  <2>2. row \in Item /\ row # None
    BY <1>2, MenuRows DEF Item
  <2>3. /\ ch.cat # None => LiveCat(ch.cat, ch.rest)
        /\ ch.sub # None => LiveCat(ch.sub, ch.rest)
    BY <1>1, <1>2, <1>4 DEF Refers, Live, LiveCat, CategoryOf, TablesOK
  <2>4. row.rest = ch.rest /\ row.cat = ch.cat /\ row.sub = ch.sub /\ row.live
    OBVIOUS
  <2>5. items' = [items EXCEPT ![i] = row]
    BY <1>4
  <2> HIDE DEF row, ch
  <2>6. TablesOK'
    BY <1>1, <1>4, <2>1, <2>2, <2>5 DEF TablesOK
  <2>7. items'[i] = row /\ \A j \in Items : j # i => items'[j] = items[j]
    BY <1>1, <2>1, <2>5 DEF TablesOK
  <2>8. \A d, r : LiveCat(d, r)' <=> LiveCat(d, r)
    BY <1>4 DEF LiveCat
  <2>9. ItemsApart'
    BY <1>1, <2>3, <2>4, <2>7, <2>8 DEF ItemsApart, TablesInv
  <2>10. CatsApart'
    BY <1>1, <1>4, <2>8 DEF CatsApart, TablesInv
  <2>11. GroupsApart'
    BY <1>1, <1>4, <2>1, <2>7 DEF GroupsApart, TablesInv, TablesOK, Group
  <2>12. TablesInv' /\ RowsKept
    BY <1>1, <1>4, <2>1, <2>6, <2>7, <2>9, <2>10, <2>11 DEF TablesInv, OptionsApart, RowsKept
  <2> QED
    BY <1>4, <2>12, EndKeeps DEF MenuChanged
<1> QED
  BY <1>3, <1>4 DEF InsertItem

LEMMA UpdateItemKeeps ==
  ASSUME MenuInv, NEW s \in Handlers, UpdateItemRow(s) PROVE MenuInv'
<1> DEFINE ch == chore[s]
           c == Given(ch.cat, items[ch.id].cat)
           u == Given(ch.sub, items[ch.id].sub)
<1>1. TablesInv /\ MenuTypeOK /\ TablesOK
  BY MenuTablesInv DEF MenuInv, TablesInv
<1>2. /\ ch.rest \in Rests /\ CategoryOf(ch.cat, ch.rest) /\ CategoryOf(ch.sub, ch.rest)
      /\ ch.id \in Items /\ items[ch.id] # None /\ items[ch.id].rest = ch.rest
      /\ ch.cat \in Cats \cup {None, Keep} /\ ch.sub \in Cats \cup {None, Keep}
  BY ChoreTypes DEF UpdateItemRow, At, ChoreFits, ItemChore, ItemOps
<1>3. CASE NothingDone(s)
  BY <1>3, NothingDoneKeeps
<1>4. ASSUME ch.id \in Live(items), Refers(cats, c), Refers(cats, u),
             items' = [items EXCEPT ![ch.id].cat = c, ![ch.id].sub = u],
             MenuChanged(s), UNCHANGED <<cats, groups, options>>
      PROVE  MenuInv'
  <2>1. PICK i \in Items : i = ch.id
    BY <1>2
  <2>2. items[i] \in Item /\ items[i].live /\ items[i].rest = ch.rest /\ items[i] # None
    BY <1>1, <1>2, <1>4, <2>1 DEF Live, TablesOK
  <2>3. c # None => LiveCat(c, ch.rest)
    <3>1. CASE ch.cat = Keep
      BY <1>1, <2>1, <2>2, <3>1 DEF Given, TablesInv, ItemsApart
    <3>2. CASE ch.cat # Keep
      BY <1>1, <1>2, <1>4, <3>2 DEF Given, Refers, Live, LiveCat, CategoryOf, TablesOK
    <3> QED
      BY <3>1, <3>2
  <2>4. u # None => LiveCat(u, ch.rest)
    <3>1. CASE ch.sub = Keep
      BY <1>1, <2>1, <2>2, <3>1 DEF Given, TablesInv, ItemsApart
    <3>2. CASE ch.sub # Keep
      BY <1>1, <1>2, <1>4, <3>2 DEF Given, Refers, Live, LiveCat, CategoryOf, TablesOK
    <3> QED
      BY <3>1, <3>2
  <2>5. c \in Cats \cup {None} /\ u \in Cats \cup {None}
    BY <2>3, <2>4 DEF LiveCat
  <2> HIDE DEF c, u
  <2> DEFINE row == [items[i] EXCEPT !.cat = c, !.sub = u]
  <2>6. row \in Item /\ row.rest = ch.rest /\ row.cat = c /\ row.sub = u /\ row.live /\ row # None
    <3>1. row \in Item /\ row.cat = c /\ row.sub = u
      BY <2>2, <2>5 DEF Item
    <3>2. row.rest = items[i].rest /\ row.live = items[i].live
      BY <2>2 DEF Item
    <3> QED
      BY <2>2, <3>1, <3>2, MenuRows
  <2>7. items' = [items EXCEPT ![i] = row]
    <3>1. items' = [items EXCEPT ![i].cat = c, ![i].sub = u]
      BY <1>4, <2>1
    <3> QED
      BY <1>1, <2>2, <3>1 DEF Item, TablesOK
  <2> HIDE DEF row, ch
  <2>8. TablesOK'
    <3>1. items' \in [Items -> Item \cup {None}]
      BY <1>1, <2>6, <2>7 DEF TablesOK
    <3>2. UNCHANGED <<cats, groups, options>>
      BY <1>4
    <3> QED
      BY <1>1, <3>1, <3>2 DEF TablesOK
  <2>9. items'[i] = row /\ \A j \in Items : j # i => items'[j] = items[j]
    BY <1>1, <2>7 DEF TablesOK
  <2>10. \A d, r : LiveCat(d, r)' <=> LiveCat(d, r)
    BY <1>4 DEF LiveCat
  <2>11. ItemsApart'
    BY <1>1, <2>3, <2>4, <2>6, <2>9, <2>10 DEF ItemsApart, TablesInv
  <2>12. CatsApart'
    BY <1>1, <1>4, <2>10 DEF CatsApart, TablesInv
  <2>13. GroupsApart'
    BY <1>1, <1>4, <2>6, <2>9 DEF GroupsApart, TablesInv, TablesOK, Group
  <2>14. TablesInv' /\ RowsKept
    BY <1>1, <1>4, <2>2, <2>6, <2>8, <2>9, <2>11, <2>12, <2>13
    DEF TablesInv, OptionsApart, RowsKept
  <2> QED
    BY <1>4, <2>14, EndKeeps DEF MenuChanged
<1> QED
  BY <1>3, <1>4 DEF UpdateItemRow

\* Groups die, and with them their options.
LEMMA DeadGroups ==
  ASSUME TablesInv, NEW Dead \in SUBSET Groups, UNCHANGED cats,
         \A g \in Dead : groups[g] # None,
         groups' = [g \in Groups |->
           IF g \in Dead THEN [groups[g] EXCEPT !.live = FALSE] ELSE groups[g]],
         options' = [o \in Options |->
           IF options[o] # None /\ options[o].group \in Dead
             THEN [options[o] EXCEPT !.live = FALSE] ELSE options[o]],
         items' \in [Items -> Item \cup {None}], ItemsApart',
         \A i \in Items : items[i] # None =>
           items'[i] # None /\ items'[i].rest = items[i].rest,
         \A g \in Groups \ Dead : groups[g] # None =>
           items'[groups[g].item] = items[groups[g].item]
  PROVE  TablesInv' /\ RowsKept
<1>1. TablesOK
  BY DEF TablesInv
<1>2. ASSUME NEW g \in Dead
      PROVE  /\ groups'[g] \in Group /\ groups'[g] # None /\ ~groups'[g].live
             /\ groups'[g].item = groups[g].item
  <2>1. groups[g] \in Group /\ groups'[g] = [groups[g] EXCEPT !.live = FALSE]
    BY <1>1 DEF TablesOK
  <2> QED
    BY <2>1, MenuRows DEF Group
<1>3. \A g \in Groups \ Dead : groups'[g] = groups[g]
  OBVIOUS
<1>4. ASSUME NEW o \in Options, options[o] # None, options[o].group \in Dead
      PROVE  options'[o] \in Option /\ options'[o] # None /\ ~options'[o].live
  <2>1. options[o] \in Option /\ options'[o] = [options[o] EXCEPT !.live = FALSE]
    BY <1>1, <1>4 DEF TablesOK
  <2> QED
    BY <2>1, MenuRows DEF Option
<1>5. \A o \in Options : ~(options[o] # None /\ options[o].group \in Dead) =>
                            options'[o] = options[o]
  OBVIOUS
<1>6. groups' \in [Groups -> Group \cup {None}]
  <2>1. \A g \in Groups : groups'[g] \in Group \cup {None}
    BY <1>1, <1>2, <1>3 DEF TablesOK
  <2>2. groups' = [g \in Groups |-> groups'[g]]
    OBVIOUS
  <2> QED
    BY <2>1, <2>2
<1>7. options' \in [Options -> Option \cup {None}]
  <2>1. \A o \in Options : options'[o] \in Option \cup {None}
    BY <1>1, <1>4, <1>5 DEF TablesOK
  <2>2. options' = [o \in Options |-> options'[o]]
    OBVIOUS
  <2> QED
    BY <2>1, <2>2
<1>8. GroupsApart'
  BY <1>2, <1>3 DEF GroupsApart, TablesInv
<1>9. OptionsApart'
  <2> SUFFICES ASSUME NEW o \in Options, options'[o] # None, options'[o].live
               PROVE  groups'[options'[o].group] # None /\ groups'[options'[o].group].live
    BY DEF OptionsApart
  <2>1. options[o] # None /\ options[o].group \notin Dead /\ options'[o] = options[o]
    BY <1>4, <1>5
  <2>2. options[o].group \in Groups
    BY <1>1, <2>1 DEF TablesOK, Option
  <2> QED
    BY <1>3, <2>1, <2>2 DEF TablesInv, OptionsApart
<1>10. TablesInv'
  BY <1>1, <1>6, <1>7, <1>8, <1>9 DEF TablesInv, TablesOK, CatsApart, LiveCat
<1>11. \A g \in Groups : groups[g] # None => groups'[g] # None
  BY <1>2, <1>3
<1>12. \A o \in Options : options[o] # None => options'[o] # None
  BY <1>4, <1>5
<1> QED
  BY <1>10, <1>11, <1>12 DEF RowsKept

LEMMA DeleteItemKeeps ==
  ASSUME MenuInv, NEW s \in Handlers, DeleteItemRow(s) PROVE MenuInv'
<1>1. TablesInv /\ MenuTypeOK /\ TablesOK
  BY MenuTablesInv DEF MenuInv, TablesInv
<1>2. PICK i \in Items : i = chore[s].id /\ items[i] # None
  BY ChoreTypes DEF DeleteItemRow, At, ChoreFits, ItemChore, ItemOps
<1> DEFINE Dead == {g \in Groups : groups[g] # None /\ groups[g].item = i}
<1>3. /\ items' = [items EXCEPT ![i].live = FALSE]
      /\ groups' = [g \in Groups |->
           IF g \in Dead THEN [groups[g] EXCEPT !.live = FALSE] ELSE groups[g]]
      /\ options' = [o \in Options |->
           IF options[o] # None /\ options[o].group \in Dead
             THEN [options[o] EXCEPT !.live = FALSE] ELSE options[o]]
      /\ MenuChanged(s) /\ UNCHANGED cats
  BY <1>2 DEF DeleteItemRow
<1>4. /\ items[i] \in Item /\ items'[i] = [items[i] EXCEPT !.live = FALSE]
      /\ \A j \in Items : j # i => items'[j] = items[j]
  BY <1>1, <1>2, <1>3 DEF TablesOK
<1>5. items'[i] \in Item /\ items'[i] # None /\ items'[i].rest = items[i].rest /\ ~items'[i].live
  BY <1>4, MenuRows DEF Item
<1>6. items' \in [Items -> Item \cup {None}]
  BY <1>1, <1>3, <1>4, <1>5 DEF TablesOK
<1>7. ItemsApart'
  <2>1. \A d, r : LiveCat(d, r)' <=> LiveCat(d, r)
    BY <1>3 DEF LiveCat
  <2> QED
    BY <1>1, <1>4, <1>5, <2>1 DEF ItemsApart, TablesInv
<1>8. \A j \in Items : items[j] # None => items'[j] # None /\ items'[j].rest = items[j].rest
  BY <1>4, <1>5
<1>9. \A g \in Groups \ Dead : groups[g] # None =>
        items'[groups[g].item] = items[groups[g].item]
  BY <1>1, <1>4 DEF TablesOK, Group
<1>10. Dead \in SUBSET Groups /\ \A g \in Dead : groups[g] # None
  OBVIOUS
<1> HIDE DEF Dead
<1>11. TablesInv' /\ RowsKept
  BY <1>1, <1>3, <1>6, <1>7, <1>8, <1>9, <1>10, DeadGroups
<1> QED
  BY <1>3, <1>11, EndKeeps DEF MenuChanged

\* The handlers of groups and options, which leave categories and items alone.
LEMMA GroupStepKeeps ==
  ASSUME MenuInv, NEW s \in Handlers,
         InsertGroup(s) \/ UpdateGroupRow(s) \/ DeleteGroupRow(s)
  PROVE  MenuInv'
<1> DEFINE ch == chore[s]
<1>1. TablesInv /\ MenuTypeOK /\ TablesOK
  BY MenuTablesInv DEF MenuInv, TablesInv
<1>2. /\ ChoreFits(ch) /\ EndChore(s) /\ UNCHANGED <<cats, items>>
  BY ChoreTypes DEF InsertGroup, UpdateGroupRow, DeleteGroupRow
<1>3. ASSUME NEW g \in Groups, NEW row \in Group, groups' = [groups EXCEPT ![g] = row],
             row.live => items[row.item] # None /\ items[row.item].live,
             groups[g] = None \/ (groups[g] # None /\ groups[g].live = row.live),
             UNCHANGED options
      PROVE  MenuInv'
  <2>1. groups'[g] = row /\ \A x \in Groups : x # g => groups'[x] = groups[x]
    BY <1>1, <1>3 DEF TablesOK
  <2>2. row # None
    BY MenuRows
  <2>3. TablesOK'
    BY <1>1, <1>2, <1>3 DEF TablesOK
  <2>4. CatsApart' /\ ItemsApart'
    BY <1>1, <1>2 DEF TablesInv, CatsApart, ItemsApart, LiveCat
  <2>5. GroupsApart'
    BY <1>1, <1>2, <1>3, <2>1 DEF TablesInv, GroupsApart
  <2>6. OptionsApart'
    BY <1>1, <1>3, <2>1, <2>2 DEF TablesInv, TablesOK, OptionsApart, Option
  <2>7. RowsKept
    BY <1>2, <1>3, <2>1, <2>2 DEF RowsKept
  <2> QED
    BY <1>2, <2>3, <2>4, <2>5, <2>6, <2>7, EndKeeps DEF TablesInv
<1>4. CASE UNCHANGED menuTables
  BY <1>1, <1>2, <1>4, SameTables, EndKeeps
<1>5. CASE InsertGroup(s)
  <2>1. CASE UNCHANGED groups
    BY <1>2, <1>4, <1>5, <2>1 DEF InsertGroup, menuTables
  <2>2. CASE groups' # groups
    <3>1. PICK g \in Unborn(groups) :
            groups' = [groups EXCEPT ![g] = [item |-> ch.id, fits |-> TRUE, live |-> TRUE]]
      BY <1>5, <2>2 DEF InsertGroup
    <3>2. ch.id \in Items /\ items[ch.id] # None /\ items[ch.id].live
      BY <1>1, <1>5, <2>2 DEF InsertGroup, Live, TablesOK
    <3>3. g \in Groups /\ groups[g] = None
      BY <1>1 DEF Unborn, TablesOK
    <3> DEFINE row == [item |-> ch.id, fits |-> TRUE, live |-> TRUE]
    <3>4. row \in Group /\ row.item = ch.id /\ row.live
      BY <3>2 DEF Group
    <3>5. groups' = [groups EXCEPT ![g] = row] /\ UNCHANGED options
      BY <1>5, <3>1 DEF InsertGroup
    <3> HIDE DEF row
    <3> QED
      BY <1>3, <3>2, <3>3, <3>4, <3>5
  <2> QED
    BY <2>1, <2>2
<1>6. CASE UpdateGroupRow(s)
  <2>1. CASE ch.id \notin Live(groups)
    BY <1>2, <1>4, <1>6, <2>1 DEF UpdateGroupRow, menuTables
  <2>2. CASE ch.id \in Live(groups)
    <3>1. PICK g \in Groups : g = ch.id /\ groups[g] # None /\ groups[g].live
      BY <1>1, <2>2 DEF Live, TablesOK
    <3> DEFINE row == [groups[g] EXCEPT !.fits = ch.fits]
    <3>2. groups[g] \in Group /\ ch.fits \in BOOLEAN
      BY <1>1, <3>1, ChoreTypes DEF TablesOK, Chore
    <3>3. row \in Group /\ row.live = groups[g].live /\ row.item = groups[g].item
      BY <3>2 DEF Group
    <3>4. groups' = [groups EXCEPT ![g] = row] /\ UNCHANGED options
      BY <1>6, <2>2, <3>1 DEF UpdateGroupRow
    <3>5. items[groups[g].item] # None /\ items[groups[g].item].live
      BY <1>1, <3>1 DEF TablesInv, GroupsApart
    <3> HIDE DEF row
    <3> QED
      BY <1>3, <3>1, <3>3, <3>4, <3>5
  <2> QED
    BY <2>1, <2>2
<1>7. CASE DeleteGroupRow(s)
  <2>1. PICK g \in Groups : g = ch.id /\ groups[g] # None
    BY <1>2, <1>7 DEF DeleteGroupRow, At, ChoreFits, OptionChore
  <2>2. groups' = [x \in Groups |->
          IF x \in {g} THEN [groups[x] EXCEPT !.live = FALSE] ELSE groups[x]]
    BY <1>1, <1>7, <2>1 DEF DeleteGroupRow, TablesOK
  <2>3. options' = [o \in Options |->
          IF options[o] # None /\ options[o].group \in {g}
            THEN [options[o] EXCEPT !.live = FALSE] ELSE options[o]]
    BY <1>7, <2>1 DEF DeleteGroupRow
  <2>4. ItemsApart' /\ items' \in [Items -> Item \cup {None}]
    BY <1>1, <1>2 DEF TablesInv, TablesOK, ItemsApart, LiveCat
  <2> DEFINE Dead == {g}
  <2>5. /\ Dead \in SUBSET Groups /\ \A x \in Dead : groups[x] # None
        /\ groups' = [x \in Groups |->
             IF x \in Dead THEN [groups[x] EXCEPT !.live = FALSE] ELSE groups[x]]
        /\ options' = [o \in Options |->
             IF options[o] # None /\ options[o].group \in Dead
               THEN [options[o] EXCEPT !.live = FALSE] ELSE options[o]]
    BY <2>1, <2>2, <2>3
  <2> HIDE DEF Dead
  <2>6. TablesInv' /\ RowsKept
    BY <1>1, <1>2, <2>4, <2>5, DeadGroups
  <2> QED
    BY <1>2, <2>6, EndKeeps
<1> QED
  BY <1>5, <1>6, <1>7

LEMMA OptionStepKeeps ==
  ASSUME MenuInv, NEW s \in Handlers,
         InsertOption(s) \/ UpdateOptionRow(s) \/ DeleteOptionRow(s)
  PROVE  MenuInv'
<1> DEFINE ch == chore[s]
<1>1. TablesInv /\ MenuTypeOK /\ TablesOK
  BY MenuTablesInv DEF MenuInv, TablesInv
<1>2. ASSUME NEW o \in Options, NEW row \in Option, options' = [options EXCEPT ![o] = row],
             row.live => groups[row.group] # None /\ groups[row.group].live,
             UNCHANGED <<cats, items, groups>>, EndChore(s)
      PROVE  MenuInv'
  <2>1. options'[o] = row /\ \A x \in Options : x # o => options'[x] = options[x]
    BY <1>1, <1>2 DEF TablesOK
  <2>2. row # None
    BY MenuRows
  <2>3. TablesOK'
    BY <1>1, <1>2 DEF TablesOK
  <2>4. CatsApart' /\ ItemsApart' /\ GroupsApart'
    BY <1>1, <1>2 DEF TablesInv, CatsApart, ItemsApart, GroupsApart, LiveCat
  <2>5. OptionsApart'
    BY <1>1, <1>2, <2>1 DEF TablesInv, OptionsApart
  <2>6. RowsKept
    BY <1>2, <2>1, <2>2 DEF RowsKept
  <2> QED
    BY <1>2, <2>3, <2>4, <2>5, <2>6, EndKeeps DEF TablesInv
<1>3. CASE InsertOption(s)
  <2>1. CASE UNCHANGED options
    BY <1>1, <1>3, <2>1, SameTables, EndKeeps DEF InsertOption, menuTables
  <2>2. CASE options' # options
    <3>1. PICK o \in Unborn(options) :
            options' = [options EXCEPT ![o] = [group |-> ch.id, live |-> TRUE]]
      BY <1>3, <2>2 DEF InsertOption
    <3>2. ch.id \in Groups /\ groups[ch.id] # None /\ groups[ch.id].live
      BY <1>1, <1>3, <2>2 DEF InsertOption, Live, TablesOK
    <3>3. o \in Options
      BY <1>1 DEF Unborn, TablesOK
    <3> DEFINE row == [group |-> ch.id, live |-> TRUE]
    <3>4. row \in Option /\ row.group = ch.id
      BY <3>2 DEF Option
    <3>5. options' = [options EXCEPT ![o] = row]
      BY <3>1
    <3> HIDE DEF row
    <3> QED
      BY <1>2, <1>3, <3>2, <3>3, <3>4, <3>5 DEF InsertOption
  <2> QED
    BY <2>1, <2>2
<1>4. CASE UpdateOptionRow(s)
  BY <1>1, <1>4, SameTables, EndKeeps DEF UpdateOptionRow
<1>5. CASE DeleteOptionRow(s)
  <2>1. PICK o \in Options : o = ch.id /\ options[o] # None
    BY <1>5, ChoreTypes DEF DeleteOptionRow, At, ChoreFits, OptionChore
  <2> DEFINE row == [options[o] EXCEPT !.live = FALSE]
  <2>2. row \in Option /\ ~row.live
    BY <1>1, <2>1 DEF TablesOK, Option
  <2>3. options' = [options EXCEPT ![o] = row]
    BY <1>5, <2>1 DEF DeleteOptionRow
  <2> HIDE DEF row
  <2> QED
    BY <1>2, <1>5, <2>2, <2>3 DEF DeleteOptionRow
<1> QED
  BY <1>3, <1>4, <1>5

\* The SELECTs of a handler that saves an item.
LEMMA ReadKeeps ==
  ASSUME MenuInv, NEW s \in Handlers, ReadCategory(s) \/ ReadSubcategory(s) PROVE MenuInv'
<1> DEFINE ch == chore[s]
<1>1. TablesInv /\ MenuTypeOK /\ TablesOK
  BY MenuTablesInv DEF MenuInv, TablesInv
<1>2. ch \in Chore /\ ChoreFits(ch) /\ UNCHANGED menuTables
  BY ChoreTypes DEF ReadCategory, ReadSubcategory
<1>3. CASE EndChore(s)
  BY <1>1, <1>2, <1>3, SameTables, EndKeeps
<1>4. ASSUME NEW t \in {"subcategory", "write"}, NEW c \in Cats \cup {None},
             ch.step \in {"category", "subcategory"},
             chore' = [chore EXCEPT ![s] = [ch EXCEPT !.step = t, !.cat = c]], UNCHANGED chores,
             CategoryOf(c, ch.rest), t = "write" => CategoryOf(ch.sub, ch.rest)
      PROVE  MenuInv'
  <2> DEFINE new == [ch EXCEPT !.step = t, !.cat = c]
  <2>1. /\ new \in Chore /\ new.step = t /\ new.cat = c /\ new.op = ch.op
        /\ new.rest = ch.rest /\ new.id = ch.id /\ new.sub = ch.sub
    BY <1>2 DEF Chore
  <2>2. /\ ch.op \in ItemOps /\ ch.rest \in Rests /\ ch.sub # Keep
        /\ ch.op # "createItem" =>
             ch.id \in Items /\ items[ch.id] # None /\ items[ch.id].rest = ch.rest
    <3>1. CategoryChore(ch) /\ ItemChore(ch) /\ OptionChore(ch)
      BY <1>2, <1>4 DEF ChoreFits
    <3>2. ch.step # "write"
      BY <1>4
    <3> QED
      BY <3>1, <3>2 DEF ItemChore, OptionChore
  <2>3. c # Keep
    BY MenuAssumption
  <2>4. ch.op \notin CategoryOps /\ ch.op \notin {"updateGroup", "deleteGroup", "createOption",
                                                   "updateOption", "deleteOption"}
    BY <2>2 DEF ItemOps, CategoryOps
  <2> HIDE DEF new
  <2>5. ChoreFits(new)
    BY <1>4, <2>1, <2>2, <2>3, <2>4 DEF ChoreFits, CategoryChore, ItemChore, OptionChore
  <2>6. chore' = [chore EXCEPT ![s] = new] /\ chores' \in 0..MaxChores
    BY <1>1, <1>4 DEF MenuTypeOK, new
  <2> QED
    BY <1>2, <2>1, <2>5, <2>6, StepKeeps
<1>5. CASE ReadCategory(s)
  <2>1. CASE EndChore(s)
    BY <1>3, <2>1
  <2>2. CASE /\ ch.cat # None => TopLevel(ch.cat, ch.rest)
             /\ chore' = [chore EXCEPT ![s].step =
                            IF ch.sub = None THEN "write" ELSE "subcategory"]
             /\ UNCHANGED chores
    <3>1. PICK t \in {"subcategory", "write"} : t = IF ch.sub = None THEN "write" ELSE "subcategory"
      OBVIOUS
    <3>2. ch.step = "category" /\ ch.cat # Keep /\ ch.cat \in Cats \cup {None}
      <4>1. ItemChore(ch) /\ ch.op \in ItemOps /\ ch.step = "category"
        BY <1>2, <1>5 DEF ReadCategory, ChoreFits, OptionChore
      <4> QED
        BY <4>1, ChoreTypes DEF ItemChore
    <3>3. CategoryOf(ch.cat, ch.rest)
      BY <1>1, <2>2, <3>2, MenuAssumption DEF CategoryOf, TopLevel, Live, TablesOK
    <3>4. t = "write" => CategoryOf(ch.sub, ch.rest)
      BY <3>1, MenuAssumption DEF CategoryOf
    <3>5. chore' = [chore EXCEPT ![s] = [ch EXCEPT !.step = t, !.cat = ch.cat]]
      <4>1. [ch EXCEPT !.step = t, !.cat = ch.cat] = [ch EXCEPT !.step = t]
        BY <1>2 DEF Chore
      <4> QED
        BY <2>2, <3>1, <4>1
    <3> QED
      BY <1>4, <2>2, <3>2, <3>3, <3>4, <3>5
  <2> QED
    BY <1>5, <2>1, <2>2 DEF ReadCategory
<1>6. CASE ReadSubcategory(s)
  <2>1. CASE EndChore(s)
    BY <1>3, <2>1
  <2>2. CASE /\ ch.sub \in Live(cats) /\ cats[ch.sub].rest = ch.rest
             /\ cats[ch.sub].parent # None
             /\ chore' = [chore EXCEPT ![s].step = "write", ![s].cat = cats[ch.sub].parent]
             /\ UNCHANGED chores
    <3>1. ch.sub \in Cats /\ cats[ch.sub] # None /\ cats[ch.sub].live
      BY <1>1, <2>2 DEF Live, TablesOK
    <3>2. LiveCat(cats[ch.sub].parent, ch.rest)
      BY <1>1, <2>2, <3>1 DEF TablesInv, CatsApart
    <3>3. CategoryOf(cats[ch.sub].parent, ch.rest) /\ CategoryOf(ch.sub, ch.rest)
      BY <2>2, <3>1, <3>2 DEF LiveCat, CategoryOf
    <3>4. cats[ch.sub].parent \in Cats \cup {None}
      BY <3>2 DEF LiveCat
    <3>5. chore' = [chore EXCEPT ![s] = [ch EXCEPT !.step = "write", !.cat = cats[ch.sub].parent]]
      BY <1>1, <1>2, <2>2 DEF MenuTypeOK, Chore
    <3>6. ch.step = "subcategory"
      BY <1>6 DEF ReadSubcategory
    <3> QED
      BY <1>4, <2>2, <3>3, <3>4, <3>5, <3>6
  <2> QED
    BY <1>6, <2>1, <2>2 DEF ReadSubcategory
<1> QED
  BY <1>5, <1>6

LEMMA BeginMenuKeeps ==
  ASSUME MenuInv, RowsInv, NEW s \in Handlers, BeginMenu(s) PROVE MenuInv'
<1>1. TablesInv /\ MenuTypeOK /\ TablesOK
  BY MenuTablesInv DEF MenuInv, TablesInv
<1>2. /\ Live(cats) = {c \in Cats : cats[c] # None /\ cats[c].live}
      /\ Live(items) = {i \in Items : items[i] # None /\ items[i].live}
      /\ Live(groups) = {g \in Groups : groups[g] # None /\ groups[g].live}
      /\ Live(options) = {o \in Options : options[o] # None /\ options[o].live}
  BY <1>1 DEF Live, TablesOK
<1>3. /\ Cats \cap {None, Keep} = {} /\ Items \cap {None, Keep} = {} /\ None # Keep
  BY MenuAssumption
<1>4. \A c \in Live(cats) : c \in Cats /\ cats[c] \in Cat /\ cats[c] # None
  BY <1>1, <1>2 DEF TablesOK
<1>5. \A i \in Live(items) : i \in Items /\ items[i] \in Item /\ items[i] # None
  BY <1>1, <1>2 DEF TablesOK
<1> USE DEF ChoreFits, CategoryChore, ItemChore, OptionChore, CategoryOps, ItemOps
<1>6. ASSUME NEW r \in Existing, NEW c \in Live(cats) \cup {None}, CreateCategory(s, r, c)
      PROVE  MenuInv'
  <2> DEFINE ch == [NoChore EXCEPT !.op = "createCategory", !.step = "write",
                                   !.rest = r, !.cat = c]
  <2>1. r \in Rests /\ c \in Cats \cup {None} /\ c # Keep
    BY <1>3, <1>4 DEF Existing
  <2>2. CategoryOf(c, r)
    BY <1>2, <1>3, <1>6 DEF CreateCategory, TopLevel, CategoryOf
  <2>3. /\ ch \in Chore /\ ch.op = "createCategory" /\ ch.step = "write"
        /\ ch.rest = r /\ ch.cat = c
    BY <2>1 DEF NoChore, Chore, ChoreOps
  <2>4. BeginChore(s, ch)
    BY <1>6 DEF CreateCategory
  <2> HIDE DEF ch
  <2> QED
    BY <2>1, <2>2, <2>3, <2>4, BeginKeeps
<1>7. ASSUME NEW r \in Existing, NEW c \in Live(cats) \cup {None},
             NEW u \in Live(cats) \cup {None}, CreateMenuItem(s, r, c, u)
      PROVE  MenuInv'
  <2> DEFINE ch == [NoChore EXCEPT !.op = "createItem", !.step = "category",
                                   !.rest = r, !.cat = c, !.sub = u]
  <2>1. r \in Rests /\ c \in Cats \cup {None} /\ u \in Cats \cup {None} /\ c # Keep /\ u # Keep
    BY <1>3, <1>4 DEF Existing
  <2>2. /\ ch \in Chore /\ ch.op = "createItem" /\ ch.step = "category"
        /\ ch.rest = r /\ ch.cat = c /\ ch.sub = u
    BY <2>1 DEF NoChore, Chore, ChoreOps
  <2>3. BeginChore(s, ch)
    BY <1>7 DEF CreateMenuItem
  <2> HIDE DEF ch
  <2> QED
    BY <2>1, <2>2, <2>3, BeginKeeps
<1>8. ASSUME NEW c \in Live(cats), DeleteCategory(s, c) PROVE MenuInv'
  <2> DEFINE ch == [NoChore EXCEPT !.op = "deleteCategory", !.step = "write",
                                   !.rest = cats[c].rest, !.id = c]
  <2>1. c \in Cats /\ cats[c] # None /\ cats[c].rest \in Rests
    BY <1>4, MenuRows
  <2>2. /\ ch \in Chore /\ ch.op = "deleteCategory" /\ ch.step = "write"
        /\ ch.rest = cats[c].rest /\ ch.id = c /\ ch.cat = None
    BY <2>1 DEF NoChore, Chore, ChoreOps
  <2>3. BeginChore(s, ch)
    BY <1>8 DEF DeleteCategory
  <2> HIDE DEF ch
  <2>4. CategoryOf(ch.cat, ch.rest) /\ CategoryOf(ch.id, ch.rest)
    BY <1>3, <2>1, <2>2 DEF CategoryOf
  <2> QED
    BY <2>1, <2>2, <2>3, <2>4, BeginKeeps
<1>9. ASSUME NEW c \in Live(cats), NEW p \in Live(cats) \cup {None, Keep},
             UpdateCategory(s, c, p)
      PROVE  MenuInv'
  <2> DEFINE ch == [NoChore EXCEPT !.op = "updateCategory", !.step = "write",
                                   !.rest = cats[c].rest, !.id = c, !.cat = p]
  <2>1. /\ c \in Cats /\ cats[c] # None /\ cats[c].rest \in Rests
        /\ p \in Cats \cup {None, Keep}
    BY <1>4, MenuRows
  <2>2. CategoryOf(p, cats[c].rest)
    BY <1>2, <1>9 DEF UpdateCategory, TopLevel, CategoryOf
  <2>3. /\ ch \in Chore /\ ch.op = "updateCategory" /\ ch.step = "write"
        /\ ch.rest = cats[c].rest /\ ch.id = c /\ ch.cat = p
    BY <2>1 DEF NoChore, Chore, ChoreOps
  <2>4. BeginChore(s, ch)
    BY <1>9 DEF UpdateCategory
  <2> HIDE DEF ch
  <2>5. CategoryOf(ch.cat, ch.rest) /\ CategoryOf(ch.id, ch.rest)
    BY <2>1, <2>2, <2>3 DEF CategoryOf
  <2> QED
    BY <2>1, <2>3, <2>4, <2>5, BeginKeeps
<1>10. ASSUME NEW i \in Live(items), DeleteMenuItem(s, i) PROVE MenuInv'
  <2> DEFINE ch == [NoChore EXCEPT !.op = "deleteItem", !.step = "write",
                                   !.rest = items[i].rest, !.id = i]
  <2>1. i \in Items /\ items[i] # None /\ items[i].rest \in Rests
    BY <1>5, MenuRows
  <2>2. /\ ch \in Chore /\ ch.op = "deleteItem" /\ ch.step = "write"
        /\ ch.rest = items[i].rest /\ ch.id = i /\ ch.cat = None /\ ch.sub = None
    BY <2>1 DEF NoChore, Chore, ChoreOps
  <2>3. BeginChore(s, ch)
    BY <1>10 DEF DeleteMenuItem
  <2> HIDE DEF ch
  <2>4. CategoryOf(ch.cat, ch.rest) /\ CategoryOf(ch.sub, ch.rest)
    BY <1>3, <2>2 DEF CategoryOf
  <2> QED
    BY <2>1, <2>2, <2>3, <2>4, BeginKeeps
<1>11. ASSUME NEW i \in Live(items), NEW c \in Live(cats) \cup {None, Keep},
              NEW u \in Live(cats) \cup {None, Keep}, UpdateMenuItem(s, i, c, u)
       PROVE  MenuInv'
  <2> DEFINE whole == c = Keep /\ u = Keep
             t == IF whole THEN "write" ELSE "category"
             a == IF whole THEN Keep ELSE Given(c, items[i].cat)
             b == IF whole THEN Keep ELSE Given(u, items[i].sub)
             ch == [NoChore EXCEPT !.op = "updateItem", !.rest = items[i].rest, !.id = i,
                                   !.step = t, !.cat = a, !.sub = b]
  <2>1. /\ i \in Items /\ items[i] # None /\ items[i].rest \in Rests
        /\ items[i].cat \in Cats \cup {None} /\ items[i].sub \in Cats \cup {None}
        /\ c \in Cats \cup {None, Keep} /\ u \in Cats \cup {None, Keep}
    BY <1>4, <1>5, MenuRows
  <2>2. /\ a \in Cats \cup {None, Keep} /\ b \in Cats \cup {None, Keep}
        /\ t \in {"write", "category"}
        /\ t = "write" => a = Keep /\ b = Keep
        /\ t # "write" => a # Keep /\ b # Keep
    BY <1>3, <2>1 DEF Given
  <2>3. BeginChore(s, ch)
    BY <1>11 DEF UpdateMenuItem
  <2> HIDE DEF t, a, b
  <2>4. /\ ch \in Chore /\ ch.op = "updateItem" /\ ch.step = t
        /\ ch.rest = items[i].rest /\ ch.id = i /\ ch.cat = a /\ ch.sub = b
    BY <2>1, <2>2 DEF NoChore, Chore, ChoreOps
  <2> HIDE DEF ch
  <2>5. t = "write" => CategoryOf(ch.cat, ch.rest) /\ CategoryOf(ch.sub, ch.rest)
    BY <1>3, <2>2, <2>4 DEF CategoryOf
  <2> QED
    BY <2>1, <2>2, <2>3, <2>4, <2>5, BeginKeeps
<1>12. ASSUME NEW op \in {"createGroup", "updateGroup", "deleteGroup", "createOption",
                          "updateOption", "deleteOption"},
              NEW x \in Items \cup Groups \cup Options, NEW f \in BOOLEAN,
              op \in {"updateGroup", "deleteGroup", "createOption"} => x \in Live(groups),
              op \in {"updateOption", "deleteOption"} => x \in Live(options),
              BeginChore(s, [NoChore EXCEPT !.op = op, !.step = "write", !.id = x, !.fits = f])
       PROVE  MenuInv'
  <2> DEFINE ch == [NoChore EXCEPT !.op = op, !.step = "write", !.id = x, !.fits = f]
  <2>1. ch \in Chore /\ ch.op = op /\ ch.step = "write" /\ ch.id = x
    BY DEF NoChore, Chore, ChoreOps
  <2>2. BeginChore(s, ch)
    BY <1>12
  <2> HIDE DEF ch
  <2> QED
    BY <1>2, <1>12, <2>1, <2>2, BeginKeeps
<1>13. ASSUME NEW op \in ChoreOps, NEW x \in Items \cup Groups \cup Options
       PROVE  [NoChore EXCEPT !.op = op, !.step = "write", !.id = x, !.fits = TRUE]
                = [NoChore EXCEPT !.op = op, !.step = "write", !.id = x]
  <2> DEFINE one == [NoChore EXCEPT !.op = op, !.step = "write", !.id = x, !.fits = TRUE]
             two == [NoChore EXCEPT !.op = op, !.step = "write", !.id = x]
  <2>1. /\ one \in Chore /\ one.op = op /\ one.step = "write" /\ one.rest = None
        /\ one.id = x /\ one.cat = None /\ one.sub = None /\ one.fits = TRUE
    BY DEF NoChore, Chore
  <2>2. /\ two \in Chore /\ two.op = op /\ two.step = "write" /\ two.rest = None
        /\ two.id = x /\ two.cat = None /\ two.sub = None /\ two.fits = TRUE
    BY DEF NoChore, Chore
  <2> HIDE DEF one, two
  <2>3. one = two
    BY <2>1, <2>2 DEF Chore
  <2> QED
    BY <2>3 DEF one, two
<1>14. ASSUME NEW i \in Live(items), CreateGroup(s, i) PROVE MenuInv'
  BY <1>5, <1>12, <1>13, <1>14 DEF CreateGroup, ChoreOps
<1>15. ASSUME NEW g \in Live(groups),
              DeleteGroup(s, g) \/ CreateOption(s, g) \/ \E f \in BOOLEAN : UpdateGroup(s, g, f)
       PROVE  MenuInv'
  BY <1>2, <1>12, <1>13, <1>15 DEF DeleteGroup, CreateOption, UpdateGroup, ChoreOps
<1>16. ASSUME NEW o \in Live(options), UpdateOption(s, o) \/ DeleteOption(s, o) PROVE MenuInv'
  BY <1>2, <1>12, <1>13, <1>16 DEF UpdateOption, DeleteOption, ChoreOps
<1> QED
  BY <1>6, <1>7, <1>8, <1>9, <1>10, <1>11, <1>14, <1>15, <1>16 DEF BeginMenu

\* Menu handlers leave the restaurants alone.
LEMMA MenuStepKeeps == MenuInv /\ RowsInv /\ MenuNext => MenuInv'
<1> SUFFICES ASSUME MenuInv, RowsInv, MenuNext PROVE MenuInv'
  OBVIOUS
<1>1. ASSUME NEW s \in Handlers, MenuStep(s) PROVE MenuInv'
  BY <1>1, InsertCategoryKeeps, UpdateCategoryKeeps, DeleteCategoryKeeps, ReadKeeps,
     InsertItemKeeps, UpdateItemKeeps, DeleteItemKeeps, GroupStepKeeps, OptionStepKeeps,
     NothingDoneKeeps
  DEF MenuStep, StopChore
<1>2. ASSUME NEW c \in Readers, NEW r \in Existing, GetRestaurantMenu(c, r) PROVE MenuInv'
  BY <1>2
  DEF GetRestaurantMenu, menuVars, menuTables, MenuInv, MenuTypeOK, ChoresFit, ChoreFits,
      CategoryChore, ItemChore, OptionChore, CategoryOf, MenusStayApart, Live
<1> QED
  BY <1>1, <1>2, BeginMenuKeeps DEF MenuNext

-----------------------------------------------------------------------------
(* The whole service.                                                      *)

ServiceInv ==
  RowsInv /\ OnboardingFits /\ CardsFit /\ MenuInv /\ PromotionsTypeOK /\ RatingsInv

\* A step that touches no restaurant and reads no card.
OffCards ==
  /\ UNCHANGED restaurantVars
  /\ \/ UNCHANGED cacheVars
     \/ \E s \in Handlers, shown, named \in SUBSET Keys : Change(s, shown, named)
     \/ \E shown \in SUBSET Keys : ChangeUnseen(shown)
     \/ \E c \in Readers, k \in Keys : Read(c, k) /\ \A r \in Rests : Card(r) # k

LEMMA OffCardsKeeps ==
  ASSUME RowsInv, OnboardingFits, CardsFit, OffCards
  PROVE  RowsInv' /\ OnboardingFits' /\ CardsFit'
<1> USE DEF restaurantVars
<1>1. UNCHANGED restaurantVars /\ RestaurantsTypeOK /\ CacheTypeOK
  BY DEF OffCards, RowsInv
<1>2. /\ CacheTypeOK'
      /\ \/ OnlyOutdates
         \/ \E c \in Readers, k \in Keys : Read(c, k) /\ \A r \in Rests : Card(r) # k
  BY <1>1, SameCache, ChangeType, UnseenType, ReadType DEF OffCards
<1>3. RowsInv'
  BY <1>1, <1>2 DEF RowsInv, RestaurantsTypeOK, TasksFit, OnlyApprovedServe, Existing
<1>4. OnboardingFits'
  BY <1>1, OnboardingStays DEF OnboardsNow, RestaurantsTypeOK
<1>5. CASE OnlyOutdates
  BY <1>1, <1>3, <1>4, <1>5, CardsIgnoreNewRows
<1>7. ASSUME NEW c \in Readers, NEW k \in Keys, Read(c, k), \A r \in Rests : Card(r) # k
      PROVE  CardsFit'
  <2>1. /\ UNCHANGED <<entry, dropping, missed>>
        /\ \A d \in Readers : d # c => lookup'[d] = lookup[d]
        /\ lookup'[c].key = k
    BY <1>1, <1>7 DEF Read, CacheTypeOK
  <2>2. CardsAreServable'
    BY <1>1, <2>1 DEF CardsFit, CardsAreServable, Existing, Card, Servable
  <2> QED
    BY <1>1, <1>7, <2>1, <2>2 DEF CardsFit, Card, Servable
<1> QED
  BY <1>2, <1>3, <1>4, <1>5, <1>7

LEMMA MenuOffCards == MenuInv /\ RowsInv /\ MenuNext => OffCards
<1> SUFFICES ASSUME MenuInv, RowsInv, MenuNext PROVE OffCards
  OBVIOUS
<1>1. \A r \in Rests : /\ MenuKey(r) \in Keys /\ Details(r) \in Keys
                      /\ \A q \in Rests : Card(q) # MenuKey(r)
  BY RestaurantsAssumption DEF Card, MenuKey, Details
<1>2. ASSUME NEW s \in Handlers, chore[s].rest \in Rests, MenuChanged(s), UNCHANGED restaurantVars
      PROVE  OffCards
  <2>1. PICK shown \in SUBSET Keys, named \in SUBSET Keys : Change(s, shown, named)
    BY <1>1, <1>2 DEF MenuChanged
  <2> QED
    BY <1>2, <2>1 DEF OffCards
<1>3. ASSUME NEW i \in Items, items[i] # None, OptionsChanged(i), UNCHANGED restaurantVars
      PROVE  OffCards
  <2>1. items[i].rest \in Rests
    BY <1>3 DEF MenuInv, MenuTypeOK, Item
  <2>2. PICK shown \in SUBSET Keys : ChangeUnseen(shown)
    BY <1>1, <1>3, <2>1 DEF OptionsChanged
  <2> QED
    BY <1>3, <2>2 DEF OffCards
<1>4. CASE UNCHANGED <<restaurantVars, cacheVars>>
  BY <1>4 DEF OffCards
<1>5. ASSUME NEW s \in Handlers,
             \/ InsertGroup(s) \/ UpdateGroupRow(s) \/ DeleteGroupRow(s)
             \/ InsertOption(s) \/ UpdateOptionRow(s) \/ DeleteOptionRow(s)
      PROVE  OffCards
  <2>1. UNCHANGED restaurantVars
    BY <1>5
    DEF InsertGroup, UpdateGroupRow, DeleteGroupRow, InsertOption, UpdateOptionRow,
        DeleteOptionRow
  <2>2. \A g \in Live(groups) : groups[g].item \in Items /\ items[groups[g].item] # None
    BY DEF MenuInv, MenusStayApart, Live, MenuTypeOK
  <2>3. \A o \in Live(options) : options[o].group \in Live(groups)
    BY DEF MenuInv, MenusStayApart
  <2>4. \A i \in Live(items) : i \in Items /\ items[i] # None
    BY DEF MenuInv, Live, MenuTypeOK
  <2>5. \/ UNCHANGED cacheVars
        \/ \E i \in Live(items) : OptionsChanged(i)
        \/ \E g \in Live(groups) : OptionsChanged(groups[g].item)
        \/ \E o \in Live(options) : OptionsChanged(groups[options[o].group].item)
    BY <1>5
    DEF InsertGroup, UpdateGroupRow, DeleteGroupRow, InsertOption, UpdateOptionRow,
        DeleteOptionRow, ShownOptionChanged
  <2> QED
    BY <1>3, <1>4, <2>1, <2>2, <2>3, <2>4, <2>5
<1>6. ASSUME NEW s \in Handlers, MenuStep(s) PROVE OffCards
  <2>1. ASSUME At(s, "createCategory") \/ At(s, "updateCategory") \/ At(s, "deleteCategory")
               \/ At(s, "createItem") \/ At(s, "updateItem") \/ At(s, "deleteItem")
        PROVE  chore[s].rest \in Rests
    BY <2>1, ChoreTypes
    DEF At, ChoreFits, CategoryChore, ItemChore, CategoryOps, ItemOps
  <2>3. CASE InsertCategory(s) \/ UpdateCategoryRow(s) \/ DeleteCategoryRow(s)
    BY <1>2, <1>4, <2>1, <2>3
    DEF InsertCategory, UpdateCategoryRow, DeleteCategoryRow, NothingDone
  <2>4. CASE InsertItem(s) \/ UpdateItemRow(s) \/ DeleteItemRow(s)
    BY <1>2, <1>4, <2>1, <2>4 DEF InsertItem, UpdateItemRow, DeleteItemRow, NothingDone
  <2> QED
    BY <1>4, <1>5, <1>6, <2>3, <2>4
    DEF MenuStep, ReadCategory, ReadSubcategory, StopChore, NothingDone
<1>7. ASSUME NEW s \in Handlers, BeginMenu(s) PROVE OffCards
  <2>1. UNCHANGED <<restaurantVars, cacheVars>>
    BY <1>7
    DEF BeginMenu, CreateCategory, CreateMenuItem, DeleteCategory, UpdateCategory,
        DeleteMenuItem, CreateGroup, UpdateMenuItem, DeleteGroup, CreateOption, UpdateGroup,
        UpdateOption, DeleteOption, BeginChore
  <2> QED
    BY <1>4, <2>1
<1>8. ASSUME NEW c \in Readers, NEW r \in Existing, GetRestaurantMenu(c, r) PROVE OffCards
  BY <1>1, <1>8 DEF GetRestaurantMenu, OffCards, Existing
<1> QED
  BY <1>6, <1>7, <1>8 DEF MenuNext

LEMMA PromotionsOffCards ==
  PromotionsTypeOK /\ PromotionsNext /\ UNCHANGED restaurantVars => OffCards /\ PromotionsTypeOK'
<1> SUFFICES ASSUME PromotionsTypeOK, PromotionsNext, UNCHANGED restaurantVars
             PROVE  OffCards /\ PromotionsTypeOK'
  OBVIOUS
<1>1. /\ BannersKey \in Keys /\ CuisinesKey \in Keys
      /\ \A r \in Rests : Card(r) # BannersKey /\ Card(r) # CuisinesKey
  BY PromotionsAssumption DEF Card, BannersKey, CuisinesKey
<1>2. edits' \in 0..MaxEdits
  BY PromotionsAssumption
  DEF PromotionsTypeOK, PromotionsNext, CreateBanner, AdminUpdateBannerStatus, DeleteBanner,
      CreateCuisine, UpdateCuisine, DeleteCuisine, Edit, ListPublicBanners, ListPublicCuisines,
      promotionVars
<1>3. /\ banner' \in [Banners -> Decisions \cup {"none", "deleted"}]
      /\ cuisine' \in [Cuisines -> {"none", "there", "deleted"}]
  BY DEF PromotionsTypeOK, PromotionsNext, CreateBanner, AdminUpdateBannerStatus, DeleteBanner,
         CreateCuisine, UpdateCuisine, DeleteCuisine, ListPublicBanners, ListPublicCuisines,
         promotionVars, Decisions
<1>4. OffCards
  <2>1. CASE UNCHANGED cacheVars
    BY <2>1 DEF OffCards
  <2>2. ASSUME NEW s \in Handlers, NEW k \in Keys, Change(s, {k}, {k}) PROVE OffCards
    BY <2>2 DEF OffCards
  <2>3. ASSUME NEW c \in Readers, Read(c, BannersKey) \/ Read(c, CuisinesKey) PROVE OffCards
    BY <1>1, <2>3 DEF OffCards
  <2> QED
    BY <1>1, <2>1, <2>2, <2>3
    DEF PromotionsNext, CreateBanner, AdminUpdateBannerStatus, DeleteBanner, CreateCuisine,
        UpdateCuisine, DeleteCuisine, ListPublicBanners, ListPublicCuisines
<1> QED
  BY <1>2, <1>3, <1>4 DEF PromotionsTypeOK

LEMMA ServiceInit == Init => ServiceInv
<1> SUFFICES ASSUME Init PROVE ServiceInv
  OBVIOUS
<1>1. RowsInv
  BY RowsInit DEF Init
<1>2. OnboardingFits
  BY DEF Init, RestaurantsInit, OnboardingFits, OnboardsNow, NoTask
<1>3. CardsFit
  <2>1. /\ \A r \in Rests : rows[r] = None
        /\ \A k \in Keys : entry[k] = "none"
        /\ \A c \in Readers : lookup[c].key = None
    BY DEF Init, RestaurantsInit, CacheInit, NoLookup
  <2> QED
    BY <2>1, CardKeys DEF CardsFit, CardsAreServable, Existing
<1>4. MenuInv
  <2>1. MenuTypeOK /\ MenusStayApart
    BY NoChoreFits, MenuAssumption DEF Init, MenuInit, MenuTypeOK, MenusStayApart, Live
  <2>2. ChoresFit
    BY NoChoreFits DEF Init, MenuInit, ChoresFit
  <2> QED
    BY <2>1, <2>2 DEF MenuInv
<1>5. PromotionsTypeOK
  BY PromotionsAssumption DEF Init, PromotionsInit, PromotionsTypeOK
<1>6. RatingsInv
  <2>1. NoPost \in Post /\ NoPost.step = "idle" /\ NoPost.late = FALSE
    BY DEF NoPost, Post
  <2>2. RatingsTypeOK
    <3>1. RatingsInit /\ 0 \in 0..MaxPosts
      BY RatingsAssumption DEF Init
    <3>2. /\ rating \in [RatedOrders -> {"none", "visible", "hidden"}]
          /\ post \in [Posts -> Post]
      BY <2>1, <3>1 DEF RatingsInit
    <3> QED
      BY <3>1, <3>2 DEF RatingsInit, RatingsTypeOK
  <2>3. \A p \in Posts : PostFits(p)
    BY <2>1 DEF Init, RatingsInit, PostFits
  <2>4. OneCommits
    BY <2>1 DEF Init, RatingsInit, OneCommits
  <2>5. RatingsExact
    BY DEF Init, RatingsInit, RatingsExact, Visible
  <2> QED
    BY <2>2, <2>3, <2>4, <2>5 DEF RatingsInv
<1> QED
  BY <1>1, <1>2, <1>3, <1>4, <1>5, <1>6 DEF ServiceInv

LEMMA ServiceNext == ServiceInv /\ [Next]_serviceVars => ServiceInv'
<1> SUFFICES ASSUME ServiceInv, [Next]_serviceVars PROVE ServiceInv'
  OBVIOUS
<1>1. UNCHANGED menuVars => MenuInv'
  BY DEF ServiceInv, menuVars, menuTables, MenuInv, MenuTypeOK, ChoresFit, ChoreFits,
         CategoryChore, ItemChore, OptionChore, CategoryOf, MenusStayApart, Live
<1>2. UNCHANGED promotionVars => PromotionsTypeOK'
  BY DEF ServiceInv, promotionVars, PromotionsTypeOK
<1>3. UNCHANGED ratingVars => RatingsInv'
  BY DEF ServiceInv, ratingVars, RatingsInv, RatingsTypeOK, PostFits, OneCommits, RatingsExact,
         Visible
<1>4. [RestaurantsNext]_vars => RowsInv' /\ OnboardingFits' /\ CardsFit'
  BY RowsNext, OnboardingNext, CardsNext DEF ServiceInv
<1>5. CASE RestaurantsNext /\ UNCHANGED <<menuVars, promotionVars, ratingVars>>
  BY <1>1, <1>2, <1>3, <1>4, <1>5 DEF ServiceInv
<1>6. CASE MenuNext /\ UNCHANGED <<promotionVars, ratingVars>>
  BY <1>2, <1>3, <1>6, MenuStepKeeps, MenuOffCards, OffCardsKeeps DEF ServiceInv
<1>7. CASE PromotionsNext /\ UNCHANGED <<restaurantVars, menuVars, ratingVars>>
  BY <1>1, <1>3, <1>7, PromotionsOffCards, OffCardsKeeps DEF ServiceInv
<1>8. CASE RateIt
  <2>1. OffCards
    BY <1>8, RatedAssumption, RestaurantsAssumption DEF RateIt, OffCards, Card, Details
  <2> QED
    BY <1>1, <1>2, <1>8, <2>1, RatingsStep, OffCardsKeeps DEF ServiceInv, RateIt
<1>9. CASE UNCHANGED serviceVars
  BY <1>1, <1>2, <1>3, <1>4, <1>9 DEF ServiceInv, serviceVars, vars
<1> QED
  BY <1>5, <1>6, <1>7, <1>8, <1>9 DEF Next

LEMMA ServiceAlways == Spec => []ServiceInv
<1> QED
  BY ServiceInit, ServiceNext, PTL DEF Spec

\* Every table, the cache, and what each handler holds keep their types,
\* whatever the handlers of the service interleave.
THEOREM TypeCorrect == Spec => []TypeOK
<1>1. ServiceInv => TypeOK
  BY DEF ServiceInv, RowsInv, MenuInv, RatingsInv, TypeOK
<1> QED
  BY <1>1, ServiceAlways, PTL

\* Menus, promotions and ratings, which share the cache and the handlers, break
\* none of what holds of the restaurants and their cached cards alone.
THEOREM ServiceKeepsRestaurants ==
  Spec => [](OnlyApprovedServe /\ OnboardingIsAtomic /\ CardsAreServable)
<1>1. ServiceInv => OnlyApprovedServe /\ OnboardingIsAtomic /\ CardsAreServable
  BY OnboardedIsWhole DEF ServiceInv, RowsInv, CardsFit
<1> QED
  BY <1>1, ServiceAlways, PTL

\* Whatever a category or an item refers to is there and of the same
\* restaurant, although handlers check it statements before they write, and no
\* group or option outlives its item.
THEOREM MenusApart == Spec => []MenusStayApart
<1>1. ServiceInv => MenusStayApart
  BY DEF ServiceInv, MenuInv
<1> QED
  BY <1>1, ServiceAlways, PTL

\* The stored average is that of the visible ratings unless the transaction
\* that computed it last was overtaken by another one's commit.
THEOREM RatingsAreExact == Spec => []RatingsExact
<1>1. ServiceInv => RatingsExact
  BY DEF ServiceInv, RatingsInv
<1> QED
  BY <1>1, ServiceAlways, PTL
=============================================================================
