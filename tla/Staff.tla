------------------------------- MODULE Staff -------------------------------
(***************************************************************************)
(* Employees and drivers in the auth service: the handlers of              *)
(* authController.ts on auth.employee_roles, auth.employee_profiles,       *)
(* auth.employee_user_roles (models/EmployeeRole.ts) and                   *)
(* auth.driver_profiles (models/DriverProfile.ts).                         *)
(*                                                                         *)
(* A job is the set of statements its handler still has to run, each one   *)
(* a step.  addEmployee() and addDriver() create the account first and     *)
(* delete it again when a later statement throws.                          *)
(***************************************************************************)
EXTENDS Accounts

CONSTANTS
  Clerks,       \* requests of administrators, owners and drivers at once
  EmployeeRoles, Vehicles, Restaurants,
  Keep,         \* "the body does not name this field"
  MaxJobs       \* bound on the jobs begun

ASSUME StaffAssumption ==
  /\ IsFiniteSet(Clerks) /\ Clerks \cap Slots = {}
  /\ None \notin EmployeeRoles \cup Vehicles \cup Restaurants \cup BOOLEAN
  /\ Keep \notin Emails \cup Phones \cup EmployeeRoles \cup Vehicles
                 \cup Restaurants \cup BOOLEAN \cup {None}
  /\ MaxJobs \in Nat

VARIABLES
  roleState,    \* auth.employee_roles: is_active, None before the INSERT
  profile,      \* auth.employee_profiles: is_active, None without a row
  assigned,     \* auth.employee_user_roles: the role, None without a row
  driver,       \* auth.driver_profiles, None without a row
  job,          \* what each clerk's request still has to do
  jobs,         \* jobs begun so far
  hired,        \* accounts addEmployee() and addDriver() have created
  stranded,     \* those whose creation stopped half-way for good
  byHand        \* drivers whose is_active was last set by updateDriver()

staffTables == <<roleState, profile, assigned, driver>>
staffHistory == <<hired, stranded, byHand>>
staffVars == <<users, codes, request, begun, roleState, profile, assigned,
               driver, job, jobs, hired, stranded, byHand>>

Ids == 1..(MaxRequests + MaxJobs)

\* The place of each statement in the handlers that run it; no two statements of
\* a handler have the same.
Place ==
  [newRole |-> 1, newDriver |-> 1, employee |-> 1, driver |-> 1, email |-> 2,
   phone |-> 3, fields |-> 4, status |-> 5, role |-> 6, move |-> 6, hire |-> 7,
   createRole |-> 7, profile |-> 8, driverProfile |-> 8, driverFields |-> 8,
   approve |-> 8, reject |-> 8, assign |-> 9, image |-> 10, undo |-> 11]

Approvals == {"pending", "approved", "rejected"}

Driver == [owner : Restaurants \cup {None}, vehicle : Vehicles \cup {None},
           active : BOOLEAN, approval : Approvals]

\* A row is not null.
ASSUME DriverRowAssumption == None \notin Driver

Free == [op |-> None, todo |-> {}, user |-> 0, email |-> Keep, phone |-> Keep,
         role |-> Keep, active |-> Keep, image |-> FALSE, vehicle |-> Keep,
         owner |-> Keep, caller |-> None]

Job ==
  [op : {None, "createEmployeeRole", "addEmployee", "updateEmployee", "assignRole",
         "updateStatus", "addDriver", "updateDriver", "submit", "approve", "reject"},
   todo : SUBSET DOMAIN Place, user : {0} \cup Ids, email : Emails \cup {Keep},
   phone : Phones \cup {None, Keep}, role : EmployeeRoles \cup {Keep},
   active : BOOLEAN \cup {Keep}, image : BOOLEAN,
   vehicle : Vehicles \cup {None, Keep}, owner : Restaurants \cup {None, Keep},
   caller : Restaurants \cup {None}]

\* The statements of each handler, which it runs in the order of their places.
Plan(op) ==
  CASE op = "createEmployeeRole" -> {"newRole", "createRole"}
    [] op = "addEmployee" ->
         {"email", "phone", "role", "hire", "profile", "assign", "image"}
    [] op = "updateEmployee" ->
         {"employee", "email", "phone", "fields", "status", "role", "assign"}
    [] op = "assignRole" -> {"employee", "role", "assign"}
    [] op = "updateStatus" -> {"employee", "status"}
    [] op = "addDriver" -> {"email", "phone", "hire", "driverProfile", "image"}
    [] op = "updateDriver" ->
         {"driver", "email", "phone", "fields", "move", "driverFields"}
    [] op = "submit" -> {"newDriver", "driverProfile"}
    [] op = "approve" -> {"driver", "approve"}
    [] op = "reject" -> {"driver", "reject"}

\* The statements a body without the field skips.
Needed(j, statement) ==
  CASE statement = "email"  -> j.email # Keep
    [] statement = "phone"  -> j.phone \notin {None, Keep}
    [] statement = "fields" -> j.email # Keep \/ j.phone # Keep
    [] statement = "status" -> j.active # Keep
    [] statement \in {"role", "assign"} -> j.role # Keep
    [] statement = "move"   -> j.owner # Keep
    [] statement = "image"  -> j.image
    [] OTHER -> TRUE

StaffTypeOK ==
  /\ AccountsTypeOK
  /\ roleState \in [EmployeeRoles -> BOOLEAN \cup {None}]
  /\ profile \in [Ids -> BOOLEAN \cup {None}]
  /\ assigned \in [Ids -> EmployeeRoles \cup {None}]
  /\ driver \in [Ids -> Driver \cup {None}]
  /\ job \in [Clerks -> Job]
  /\ jobs \in 0..MaxJobs
  /\ hired \cup stranded \cup byHand \subseteq Ids

StaffInit ==
  /\ AccountsInit
  /\ roleState = [r \in EmployeeRoles |-> None]
  /\ profile = [i \in Ids |-> None]
  /\ assigned = [i \in Ids |-> None]
  /\ driver = [i \in Ids |-> None]
  /\ job = [s \in Clerks |-> Free]
  /\ jobs = 0
  /\ hired = {} /\ stranded = {} /\ byHand = {}

-----------------------------------------------------------------------------
BeginJob(s, j) ==
  /\ job[s] = Free
  /\ jobs < MaxJobs
  /\ jobs' = jobs + 1
  /\ job' = [job EXCEPT ![s] =
               [j EXCEPT !.todo = {x \in Plan(j.op) : Needed(j, x)}]]
  /\ UNCHANGED <<accountVars, staffTables, staffHistory>>

\* Clerk s is at a statement: the first one left.
At(s, statement) ==
  /\ statement \in job[s].todo
  /\ \A x \in job[s].todo : Place[statement] <= Place[x]

\* The handler has run its statement; after the last one it answers.
Proceed(s) ==
  LET rest == {x \in job[s].todo : ~At(s, x)} IN
    /\ job' = [job EXCEPT ![s] = IF rest = {} THEN Free
                                 ELSE [@ EXCEPT !.todo = rest]]
    /\ UNCHANGED jobs

Respond(s) == job' = [job EXCEPT ![s] = Free] /\ UNCHANGED jobs

\* A test of the handler: go on or answer.
Check(s, passed) ==
  /\ IF passed THEN Proceed(s) ELSE Respond(s)
  /\ UNCHANGED <<accountVars, staffTables, staffHistory>>

\* The statements inside the try whose catch deletes the new account.
Hiring(s) ==
  /\ job[s].op \in {"addEmployee", "addDriver"}
  /\ \E x \in {"profile", "assign", "driverProfile", "image", "undo"} : At(s, x)

\* Fault: the catch rethrows without deleting the account.
ThrowOnly(s) == Respond(s)

\* A statement throws: to the compensation, or to the answer 409 or 500.
Throw(s) ==
  IF Hiring(s) THEN job' = [job EXCEPT ![s].todo = {"undo"}] /\ UNCHANGED jobs
               ELSE Respond(s)

-----------------------------------------------------------------------------
(* The handlers.                                                           *)

CreateEmployeeRole(s, r) ==
  BeginJob(s, [Free EXCEPT !.op = "createEmployeeRole", !.role = r])

\* updateEmployeeRole: one UPDATE.
UpdateEmployeeRole(r, active) ==
  /\ roleState[r] # None
  /\ roleState' = [roleState EXCEPT ![r] = active]
  /\ UNCHANGED <<accountVars, profile, assigned, driver, job, jobs, staffHistory>>

AddEmployee(s, e, p, r, active, image) ==
  BeginJob(s, [Free EXCEPT !.op = "addEmployee", !.email = e, !.phone = p,
                           !.role = r, !.active = active, !.image = image])

UpdateEmployeeByAdmin(s, i, e, p, active, r) ==
  BeginJob(s, [Free EXCEPT !.op = "updateEmployee", !.user = i, !.email = e,
                           !.phone = p, !.active = active, !.role = r])

AssignEmployeeRole(s, i, r) ==
  BeginJob(s, [Free EXCEPT !.op = "assignRole", !.user = i, !.role = r])

UpdateEmployeeStatus(s, i, active) ==
  BeginJob(s, [Free EXCEPT !.op = "updateStatus", !.user = i, !.active = active])

\* The caller is an administrator (None) or a restaurant's owner, whose drivers
\* resolveDriverOwnership() gives to that restaurant.
AddDriver(s, caller, e, p, v, o, active, image) ==
  /\ caller = None \/ o = caller
  /\ BeginJob(s, [Free EXCEPT !.op = "addDriver", !.caller = caller, !.email = e,
                              !.phone = p, !.vehicle = v, !.owner = o,
                              !.active = active, !.image = image])

UpdateDriver(s, caller, i, e, p, active, v, o) ==
  BeginJob(s, [Free EXCEPT !.op = "updateDriver", !.caller = caller, !.user = i,
                           !.email = e, !.phone = p, !.active = active,
                           !.vehicle = v, !.owner = o])

\* The driver signs in with his own token: the id is his.
SubmitDriverProfile(s, i, v) ==
  /\ users[i].role = "driver"
  /\ BeginJob(s, [Free EXCEPT !.op = "submit", !.user = i, !.vehicle = v,
                              !.owner = None, !.active = FALSE])

ApproveDriver(s, i) == BeginJob(s, [Free EXCEPT !.op = "approve", !.user = i])
RejectDriver(s, i) == BeginJob(s, [Free EXCEPT !.op = "reject", !.user = i])

-----------------------------------------------------------------------------
(* The statements that read.                                               *)

Others(s) == LiveUsers \ {job[s].user}

CheckOtherEmail(s) ==
  /\ At(s, "email")
  /\ Check(s, \A i \in Others(s) : users[i].email # job[s].email)

CheckOtherPhone(s) ==
  /\ At(s, "phone")
  /\ Check(s, \A i \in Others(s) : users[i].phone # job[s].phone)

FindRoleByName(s) ==
  /\ At(s, "newRole")
  /\ Check(s, roleState[job[s].role] = None)

FindRoleById(s) ==
  /\ At(s, "role")
  /\ Check(s, roleState[job[s].role] = TRUE)

FindEmployeeById(s) ==
  LET i == job[s].user IN
    /\ At(s, "employee")
    /\ Check(s, i \in LiveUsers /\ users[i].role = "employee")

FindNewDriver(s) ==
  /\ At(s, "newDriver")
  /\ Check(s, driver[job[s].user] = None)

\* findDriverById; an owner may not touch the drivers of others, and rejection
\* is refused to a driver already approved.
FindDriverById(s) ==
  LET j == job[s]
      d == driver[j.user]
  IN
    /\ At(s, "driver")
    /\ Check(s, /\ d # None
                /\ j.caller # None => d.owner = j.caller
                /\ j.op = "reject" => d.approval # "approved")

\* "Restaurant users cannot move driver ownership", after the account is updated.
CheckMove(s) ==
  /\ At(s, "move")
  /\ Check(s, job[s].caller = None)

-----------------------------------------------------------------------------
(* The statements that write.                                              *)

CreateRole(s) ==
  LET r == job[s].role IN
    /\ At(s, "createRole")
    /\ roleState' = IF roleState[r] = None THEN [roleState EXCEPT ![r] = TRUE]
                    ELSE roleState
    /\ Respond(s)
    /\ UNCHANGED <<accountVars, profile, assigned, driver, staffHistory>>

\* User.create.
Hire(s) ==
  LET j == job[s] IN
    /\ At(s, "hire")
    /\ \/ /\ Insertable(j.email, j.phone)
          /\ \E w \in Passwords :
               users' = Append(users, UserRow(j.email, j.phone, w,
                   IF j.op = "addDriver" THEN "driver" ELSE "employee"))
          /\ hired' = hired \cup {Len(users) + 1}
          /\ job' = [job EXCEPT ![s].user = Len(users) + 1, ![s].todo = @ \ {"hire"}]
          /\ UNCHANGED jobs
       \/ /\ ~Insertable(j.email, j.phone)
          /\ Respond(s)
          /\ UNCHANGED <<users, hired>>
    /\ UNCHANGED <<codes, request, begun, staffTables, stranded, byHand>>

\* createEmployeeProfile: an upsert, refused by the foreign key when the
\* account is gone.
CreateEmployeeProfile(s) ==
  LET i == job[s].user IN
    /\ At(s, "profile")
    /\ IF i \in LiveUsers
         THEN profile' = [profile EXCEPT ![i] = job[s].active] /\ Proceed(s)
         ELSE Throw(s) /\ UNCHANGED profile
    /\ UNCHANGED <<accountVars, roleState, assigned, driver, staffHistory>>

\* assignRoleToEmployee: likewise.
AssignRole(s) ==
  LET i == job[s].user IN
    /\ At(s, "assign")
    /\ IF i \in LiveUsers
         THEN assigned' = [assigned EXCEPT ![i] = job[s].role] /\ Proceed(s)
         ELSE Throw(s) /\ UNCHANGED assigned
    /\ UNCHANGED <<accountVars, roleState, profile, driver, staffHistory>>

\* updateEmployeeProfile: no row, no effect.
UpdateEmployeeProfile(s) ==
  LET i == job[s].user IN
    /\ At(s, "status")
    /\ profile' = IF profile[i] # None THEN [profile EXCEPT ![i] = job[s].active]
                  ELSE profile
    /\ Proceed(s)
    /\ UNCHANGED <<accountVars, roleState, assigned, driver, staffHistory>>

\* Fault: a field the body does not name overwrites the column.
GivenAnyway(value, old) == value

Given(value, old) == IF value = Keep THEN old ELSE value

\* updateAdminManagedFields; the unique indexes still refuse a taken address.
UpdateUserFields(s) ==
  LET j == job[s]
      i == j.user
      e == Given(j.email, users[i].email)
      p == Given(j.phone, users[i].phone)
  IN
    /\ At(s, "fields")
    /\ \/ /\ \E k \in Others(s) :
               users[k].email = e \/ (p # None /\ users[k].phone = p)
          /\ Throw(s)
          /\ UNCHANGED users
       \/ /\ \A k \in Others(s) : users[k].email # e /\ (p = None \/ users[k].phone # p)
          /\ users' = IF users[i].live
                      THEN [users EXCEPT ![i].email = e, ![i].phone = p,
                                         ![i].had = @ \cup ({p} \ {None})]
                      ELSE users
          /\ Proceed(s)
    /\ UNCHANGED <<codes, request, begun, staffTables, staffHistory>>

VehicleTaken(v, i) ==
  v # None /\ \E k \in Ids \ {i} : driver[k] # None /\ driver[k].vehicle = v

\* createDriverProfile: approved when addDriver() runs it, pending when the
\* driver does.  The primary key and the vehicle number are unique.
CreateDriverProfile(s) ==
  LET j == job[s]
      i == j.user
  IN
    /\ At(s, "driverProfile")
    /\ IF i \in LiveUsers /\ driver[i] = None /\ ~VehicleTaken(j.vehicle, i)
         THEN /\ driver' = [driver EXCEPT ![i] =
                   [owner |-> j.owner, vehicle |-> j.vehicle, active |-> j.active,
                    approval |-> IF j.op = "submit" THEN "pending" ELSE "approved"]]
              /\ Proceed(s)
         ELSE Throw(s) /\ UNCHANGED driver
    /\ UNCHANGED <<accountVars, roleState, profile, assigned, staffHistory>>

\* updateDriverProfile of updateDriver(): no row, no effect.
UpdateDriverProfile(s) ==
  LET j == job[s]
      i == j.user
      v == Given(j.vehicle, driver[i].vehicle)
  IN
    /\ At(s, "driverFields")
    /\ IF driver[i] = None THEN Proceed(s) /\ UNCHANGED <<driver, byHand>>
       ELSE IF VehicleTaken(v, i) THEN Throw(s) /\ UNCHANGED <<driver, byHand>>
       ELSE /\ driver' = [driver EXCEPT ![i].owner = Given(j.owner, @),
                                        ![i].vehicle = v,
                                        ![i].active = Given(j.active, @)]
            /\ byHand' = IF j.active = Keep THEN byHand ELSE byHand \cup {i}
            /\ Proceed(s)
    /\ UNCHANGED <<accountVars, roleState, profile, assigned, hired, stranded>>

Approve(s) ==
  LET i == job[s].user IN
    /\ At(s, "approve")
    /\ driver' = IF driver[i] = None THEN driver
                 ELSE [driver EXCEPT ![i].approval = "approved", ![i].active = TRUE]
    /\ byHand' = byHand \ {i}
    /\ Proceed(s)
    /\ UNCHANGED <<accountVars, roleState, profile, assigned, hired, stranded>>

\* Fault: the rejection leaves is_active as it was.
RejectOnly(s) ==
  LET i == job[s].user IN
    /\ At(s, "reject")
    /\ driver' = IF driver[i] = None THEN driver
                 ELSE [driver EXCEPT ![i].approval = "rejected"]
    /\ byHand' = byHand \ {i}
    /\ Proceed(s)
    /\ UNCHANGED <<accountVars, roleState, profile, assigned, hired, stranded>>

Reject(s) ==
  LET i == job[s].user IN
    /\ At(s, "reject")
    /\ driver' = IF driver[i] = None THEN driver
                 ELSE [driver EXCEPT ![i].approval = "rejected", ![i].active = FALSE]
    /\ byHand' = byHand \ {i}
    /\ Proceed(s)
    /\ UNCHANGED <<accountVars, roleState, profile, assigned, hired, stranded>>

\* updateProfile: the picture of addEmployee() and addDriver(), a column no
\* property reads; no row, no effect.
UpdatePicture(s) ==
  /\ At(s, "image")
  /\ Proceed(s)
  /\ UNCHANGED <<accountVars, staffTables, staffHistory>>

\* The catch of addEmployee() and addDriver(): deleteById, which cascades.
UndoHire(s) ==
  LET i == job[s].user IN
    /\ At(s, "undo")
    /\ users' = [users EXCEPT ![i].live = FALSE]
    /\ profile' = [profile EXCEPT ![i] = None]
    /\ assigned' = [assigned EXCEPT ![i] = None]
    /\ driver' = [driver EXCEPT ![i] = None]
    /\ Respond(s)
    /\ UNCHANGED <<codes, request, begun, roleState, staffHistory>>

\* The database refuses a statement of the try; refused in the catch too, the
\* account stays.
StatementThrows(s) ==
  /\ Hiring(s)
  /\ IF At(s, "undo")
       THEN Respond(s) /\ stranded' = stranded \cup {job[s].user}
       ELSE Throw(s) /\ UNCHANGED stranded
  /\ UNCHANGED <<accountVars, staffTables, hired, byHand>>

\* The service stops in the middle of a job.
StopJob(s) ==
  /\ job[s] # Free
  /\ Respond(s)
  /\ stranded' = IF Hiring(s) THEN stranded \cup {job[s].user} ELSE stranded
  /\ UNCHANGED <<accountVars, staffTables, hired, byHand>>

-----------------------------------------------------------------------------
BeginEmployeeJob(s) ==
  \/ \E r \in EmployeeRoles :
       \/ CreateEmployeeRole(s, r)
       \/ \E e \in Emails, p \in Phones, active \in BOOLEAN, image \in BOOLEAN :
            AddEmployee(s, e, p, r, active, image)
       \/ \E i \in DOMAIN users : AssignEmployeeRole(s, i, r)
  \/ \E i \in DOMAIN users, active \in BOOLEAN : UpdateEmployeeStatus(s, i, active)
  \/ \E i \in DOMAIN users, e \in Emails \cup {Keep}, p \in Phones \cup {None, Keep},
        active \in BOOLEAN \cup {Keep}, r \in EmployeeRoles \cup {Keep} :
       UpdateEmployeeByAdmin(s, i, e, p, active, r)

BeginDriverJob(s) ==
  \/ \E c \in Restaurants \cup {None}, e \in Emails, p \in Phones,
        v \in Vehicles \cup {None}, o \in Restaurants \cup {None},
        active \in BOOLEAN, image \in BOOLEAN :
       AddDriver(s, c, e, p, v, o, active, image)
  \/ \E i \in DOMAIN users :
       \/ ApproveDriver(s, i)
       \/ RejectDriver(s, i)
       \/ \E v \in Vehicles \cup {None} : SubmitDriverProfile(s, i, v)
       \/ \E c \in Restaurants \cup {None}, e \in Emails \cup {Keep},
             p \in Phones \cup {None, Keep}, active \in BOOLEAN \cup {Keep},
             v \in Vehicles \cup {Keep}, o \in Restaurants \cup {None, Keep} :
            UpdateDriver(s, c, i, e, p, active, v, o)

StaffStatement(s) ==
  \/ CheckOtherEmail(s) \/ CheckOtherPhone(s) \/ FindRoleByName(s)
  \/ FindRoleById(s) \/ FindEmployeeById(s) \/ FindNewDriver(s)
  \/ FindDriverById(s) \/ CheckMove(s)
  \/ CreateRole(s) \/ Hire(s) \/ CreateEmployeeProfile(s) \/ AssignRole(s)
  \/ UpdateEmployeeProfile(s) \/ UpdateUserFields(s) \/ CreateDriverProfile(s)
  \/ UpdateDriverProfile(s) \/ Approve(s) \/ Reject(s) \/ UpdatePicture(s)
  \/ UndoHire(s)

StaffNext ==
  \/ AccountsNext /\ UNCHANGED <<staffTables, job, jobs, staffHistory>>
  \/ \E s \in Clerks :
       \/ BeginEmployeeJob(s) \/ BeginDriverJob(s)
       \/ StaffStatement(s) \/ StatementThrows(s) \/ StopJob(s)
  \/ \E r \in EmployeeRoles, active \in BOOLEAN : UpdateEmployeeRole(r, active)

-----------------------------------------------------------------------------
(* Properties.                                                             *)

\* The rows addEmployee() or addDriver() gives an account after creating it.
Complete(i) ==
  IF users[i].role = "driver" THEN driver[i] # None
  ELSE profile[i] # None /\ assigned[i] # None

\* A request is still building account i, or about to delete it again.
BeingBuilt(i) == \E s \in Clerks : Hiring(s) /\ job[s].user = i

\* An account created for an employee or a driver has its profile and role, or
\* its creation is running, or the service was stopped in the middle: a failed
\* statement never leaves a half-made account that could sign in.
HiresAreComplete ==
  \A i \in hired : users[i].live => Complete(i) \/ BeingBuilt(i) \/ i \in stranded

\* A driver who may work was approved, or someone switched him on by hand with
\* updateDriver() since he was last approved or rejected, however decisions
\* and updates interleave.
ActiveByDecision ==
  \A i \in Ids : driver[i] # None /\ driver[i].active =>
    driver[i].approval = "approved" \/ i \in byHand
=============================================================================
