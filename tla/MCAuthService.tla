--------------------------- MODULE MCAuthService ---------------------------
(* A behaviour keeps to one workload: handlers that contend for the same     *)
(* rows, two requests at once.  Together the workloads run every handler.    *)
(* One e-mail address and one phone to fight for; two code values, so that a *)
(* guess can be wrong; codes closed after two wrong guesses, so that the     *)
(* limit is reached and passed; a role, a vehicle number and a restaurant,   *)
(* for what is unique or owned.  Nothing tells the requests, codes or        *)
(* passwords apart, and no liveness is checked: symmetry is sound.           *)
EXTENDS AuthService, TLC

VARIABLE load

Symmetric ==
  Permutations(Slots) \cup Permutations(Clerks) \cup Permutations(Sessions)
    \cup Permutations(Codes) \cup Permutations(Passwords)

\* Four guesses at the codes of one sign-up.
GuessLoad(s) ==
  \E e \in Emails, p \in Phones, c \in Codes :
    \/ begun = 0 /\ SignupRequestOtp(s, e, p)
    \/ SignupEmailVerifyOtp(s, e, c)

\* Reset codes under guessing, and a password changed twice.
ResetLoad(s) ==
  \E p \in Phones, c \in Codes, w \in Passwords :
    \/ users = <<>> /\ \E e \in Emails : AddRestaurantOwner(s, e, p, w)
    \/ ForgotPassword(s, p)
    \/ ResetPassword(s, p, c, w)

\* The reset screens, one after the other.
ForgotLoad(s) ==
  \E p \in Phones, c \in Codes, w \in Passwords :
    \/ users = <<>> /\ \E e \in Emails : AddRestaurantOwner(s, e, p, w)
    \/ ForgotPassword(s, p)
    \/ VerifyForgotPasswordOtp(s, p, c)

\* Sign-up, with the code that verifies the e-mail.
SignupLoad(s) ==
  \E e \in Emails, p \in Phones, c \in Codes, w \in Passwords :
    \/ SignupRequestOtp(s, e, p)
    \/ SignupEmailVerifyOtp(s, e, c)
    \/ Register(s, e, p, c, w, "customer")

\* Accounts an administrator adds and removes.
AdminLoad(s) ==
  \E e \in Emails, p \in Phones, w \in Passwords :
    \/ \E q \in {p, None} : AddAdmin(s, e, q, w)
    \/ AddRestaurantOwner(s, e, p, w)
    \/ \E i \in DOMAIN users : DeleteRestaurantOwner(s, i)

\* Employees hired, changed and given roles.
EmployeeLoad(s) ==
  \E e \in Emails, p \in Phones, r \in EmployeeRoles :
    \/ jobs = 0 /\ CreateEmployeeRole(s, r)
    \/ \E image \in BOOLEAN : AddEmployee(s, e, p, r, TRUE, image)
    \/ \E i \in DOMAIN users :
         \/ AssignEmployeeRole(s, i, r)
         \/ \E active \in BOOLEAN : UpdateEmployeeStatus(s, i, active)
         \/ \E q \in {p, Keep}, a \in {FALSE, Keep}, t \in {r, Keep} :
              UpdateEmployeeByAdmin(s, i, Keep, q, a, t)

\* Drivers hired by an administrator or by their restaurant, and changed.
DriverLoad(s) ==
  \E c \in Restaurants \cup {None}, v \in Vehicles \cup {None}, p \in Phones :
    \/ \E e \in Emails : AddDriver(s, c, e, p, v, c, TRUE, v # None)
    \/ \E i \in DOMAIN users, o \in Restaurants \cup {None, Keep}, q \in {p, None, Keep} :
         UpdateDriver(s, c, i, Keep, q, Keep, IF v = None THEN Keep ELSE v, o)

\* Drivers approved, rejected and switched on and off; some sign up alone.
ApprovalLoad(s) ==
  \/ \E e \in Emails, p \in Phones , a \in BOOLEAN :
       AddDriver(s, None, e, p, None, None, a, FALSE)
  \/ \E i \in DOMAIN users :
       \/ ApproveDriver(s, i)
       \/ RejectDriver(s, i)
       \/ SubmitDriverProfile(s, i, None)
       \/ \E active \in BOOLEAN :
            UpdateDriver(s, None, i, Keep, Keep, active, Keep, Keep)

\* A driver takes a new phone, or gives his up, while he resets his password.
PhoneLoad(s) ==
  \E p \in Phones, c \in Codes, w \in Passwords :
    ForgotPassword(s, p) \/ ResetPassword(s, p, c, w)

PhoneJobs(s) ==
  \E p \in Phones :
    \/ \E e \in Emails : AddDriver(s, None, e, p, None, None, TRUE, FALSE)
    \/ \E i \in DOMAIN users, q \in {p, None} :
         UpdateDriver(s, None, i, Keep, q, Keep, Keep, Keep)

\* A driver signs himself up.
SelfDriverLoad(s) ==
  \E e \in Emails, p \in Phones, c \in Codes, w \in Passwords :
    \/ SignupRequestOtp(s, e, p)
    \/ Register(s, e, p, c, w, "driver")

Loads == {"guess", "reset", "forgot", "signup", "admin", "selfDriver",
          "phones", "employees", "drivers", "approvals", "addresses"}

MCInit == Init /\ load \in Loads

\* The requests of the public and of administrators.
RequestNext(s) ==
  /\ \/ load = "guess" /\ GuessLoad(s)
     \/ load = "reset" /\ ResetLoad(s)
     \/ load = "forgot" /\ ForgotLoad(s)
     \/ load = "signup" /\ begun < 3 /\ SignupLoad(s)
     \/ load = "admin" /\ AdminLoad(s)
     \/ load = "selfDriver" /\ begun < 2 /\ SelfDriverLoad(s)
     \/ load = "phones" /\ begun < 3 /\ PhoneLoad(s)
     \/ Statement(s)
     \/ Abandon(s)
  /\ UNCHANGED <<staffTables, job, jobs, staffHistory, addressVars>>

\* The requests about staff.
JobNext(s) ==
  /\ \/ load = "employees" /\ EmployeeLoad(s)
     \/ load = "drivers" /\ jobs < MaxJobs - 1 /\ DriverLoad(s)
     \/ load = "approvals" /\ ApprovalLoad(s)
     \/ load = "selfDriver" /\ jobs < 2 /\ ApprovalLoad(s)
     \/ load = "phones" /\ jobs < 2 /\ PhoneJobs(s)
     \/ StaffStatement(s)
     \/ StatementThrows(s)
     \/ StopJob(s)
  /\ UNCHANGED addressVars

MCNext ==
  /\ \/ \E s \in Slots : RequestNext(s)
     \/ \E s \in Clerks : JobNext(s)
     \/ /\ \E i \in DOMAIN codes : ExpireCode(i)
        /\ UNCHANGED <<staffTables, job, jobs, staffHistory, addressVars>>
     \/ /\ \E r \in EmployeeRoles, active \in BOOLEAN : UpdateEmployeeRole(r, active)
        /\ UNCHANGED addressVars
     \/ load = "addresses" /\ AddressNext /\ UNCHANGED staffVars
  /\ UNCHANGED load

MCSpec == MCInit /\ [][MCNext]_<<authVars, load>>
=============================================================================
