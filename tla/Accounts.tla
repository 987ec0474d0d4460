------------------------------ MODULE Accounts ------------------------------
(***************************************************************************)
(* The accounts of the auth service: auth.users (models/User.ts),          *)
(* auth.otp_codes (utils/otpCodes.ts) and the handlers of                  *)
(* controllers/authController.ts that sign a user up, reset a password and *)
(* let an administrator add or remove accounts.                            *)
(*                                                                         *)
(* No handler opens a transaction: every statement is a step of its own,   *)
(* and whatever a handler has read may be stale when it uses it.  A        *)
(* request is a record of its arguments, what it has read and the          *)
(* statement it is at.                                                     *)
(***************************************************************************)
EXTENDS Naturals, Sequences, FiniteSets

CONSTANTS
  Slots,        \* requests the service works on at once
  Emails, Phones,
  Codes,        \* values a one-time code can have
  Passwords,
  None,         \* null
  MaxAttempts,  \* 5 in the code: wrong guesses before a code is closed
  MaxRequests   \* bound on the requests begun

ASSUME AccountsAssumption ==
  /\ IsFiniteSet(Slots)
  /\ None \notin Emails \cup Phones \cup Codes \cup Passwords
  /\ Emails \cap Phones = {}
  /\ MaxAttempts \in Nat \ {0}
  /\ MaxRequests \in Nat

VARIABLES
  users,        \* auth.users, in order of insertion; deleted rows stay, dead
  codes,        \* auth.otp_codes, in order of created_at
  request,      \* the handler each slot runs
  begun         \* requests begun so far

accountVars == <<users, codes, request, begun>>

\* The roles register() accepts; addAdmin() and Staff give the others.
SelfRoles == {"customer", "restaurant", "driver"}
Roles == SelfRoles \cup {"admin", "employee"}

Addresses == Emails \cup Phones

\* had collects the phones the account has had: a history field, no column has
\* it.
User == [email : Emails, phone : Phones \cup {None}, pass : Passwords,
         role : Roles, live : BOOLEAN, had : SUBSET Phones]

\* uses counts the requests that marked the code used after it was matched: a
\* history field, no column has it.
Code == [addr : Addresses, code : Codes, used : BOOLEAN, expired : BOOLEAN,
         attempts : Nat, uses : Nat]

Ops == {"signup", "register", "verifyEmail", "forgot", "verifyForgot", "reset",
        "addAdmin", "addOwner", "deleteOwner"}

Steps == {"idle", "code", "wrong", "recount", "exhaust", "find", "mark",
          "email", "phone", "insert", "retire", "store", "password",
          "owner", "delete"}

Request ==
  [op : Ops \cup {None}, pc : Steps, email : Emails \cup {None},
   phone : Phones \cup {None}, code : Codes \cup {None},
   pass : Passwords \cup {None}, role : Roles \cup {None},
   todo : SUBSET Addresses, row : Nat, user : Nat]

Idle == [op |-> None, pc |-> "idle", email |-> None, phone |-> None,
         code |-> None, pass |-> None, role |-> None, todo |-> {},
         row |-> 0, user |-> 0]

AccountsTypeOK ==
  /\ users \in Seq(User)
  /\ codes \in Seq(Code)
  /\ request \in [Slots -> Request]
  /\ begun \in 0..MaxRequests

AccountsInit ==
  /\ users = <<>>
  /\ codes = <<>>
  /\ request = [s \in Slots |-> Idle]
  /\ begun = 0

-----------------------------------------------------------------------------
(* Statements.                                                             *)

LiveUsers == {i \in DOMAIN users : users[i].live}

EmailTaken(e) == \E i \in LiveUsers : users[i].email = e
PhoneTaken(p) == p # None /\ \E i \in LiveUsers : users[i].phone = p

UserRow(e, p, w, r) ==
  [email |-> e, phone |-> p, pass |-> w, role |-> r, live |-> TRUE,
   had |-> {p} \ {None}]

\* INSERT INTO auth.users: the unique indexes on email and phone refuse a
\* second live row.
Insertable(e, p) == ~EmailTaken(e) /\ ~PhoneTaken(p)

Unused(a) == {i \in DOMAIN codes : codes[i].addr = a /\ ~codes[i].used}

\* The row ORDER BY created_at DESC LIMIT 1 returns.
IsNewest(i, a) == i \in Unused(a) /\ \A j \in Unused(a) : j <= i

-----------------------------------------------------------------------------
(* The control of a handler: begin, go to another statement, answer.       *)

GoTo(s, step) == request' = [request EXCEPT ![s].pc = step] /\ UNCHANGED begun

Answer(s) == request' = [request EXCEPT ![s] = Idle] /\ UNCHANGED begun

Begin(s, r) ==
  /\ request[s] = Idle
  /\ begun < MaxRequests
  /\ begun' = begun + 1
  /\ request' = [request EXCEPT ![s] = r]
  /\ UNCHANGED <<users, codes>>

\* POST /auth/signup/request-otp; channels is what send_email and send_phone
\* leave to do.
SignupRequestOtp(s, e, p) ==
  \E channels \in (SUBSET {e, p}) \ {{}} :
    Begin(s, [Idle EXCEPT !.op = "signup", !.pc = "email", !.email = e,
                          !.phone = p, !.todo = channels])

\* POST /auth/register.
Register(s, e, p, c, w, r) ==
  Begin(s, [Idle EXCEPT !.op = "register", !.pc = "code", !.email = e,
                        !.phone = p, !.code = c, !.pass = w, !.role = r])

\* POST /auth/signup/email/verify-otp.
SignupEmailVerifyOtp(s, e, c) ==
  Begin(s, [Idle EXCEPT !.op = "verifyEmail", !.pc = "code", !.email = e,
                        !.code = c])

\* POST /auth/forgot-password.
ForgotPassword(s, p) ==
  Begin(s, [Idle EXCEPT !.op = "forgot", !.pc = "find", !.phone = p,
                        !.todo = {p}])

\* POST /auth/forgot-password/verify-otp.
VerifyForgotPasswordOtp(s, p, c) ==
  Begin(s, [Idle EXCEPT !.op = "verifyForgot", !.pc = "code", !.phone = p,
                        !.code = c])

\* POST /auth/reset-password.
ResetPassword(s, p, c, w) ==
  Begin(s, [Idle EXCEPT !.op = "reset", !.pc = "code", !.phone = p,
                        !.code = c, !.pass = w])

\* POST /auth/admin, where the phone is optional.
AddAdmin(s, e, p, w) ==
  Begin(s, [Idle EXCEPT !.op = "addAdmin", !.pc = "email", !.email = e,
                        !.phone = p, !.pass = w, !.role = "admin"])

\* POST /auth/admin/restaurant-owner.
AddRestaurantOwner(s, e, p, w) ==
  Begin(s, [Idle EXCEPT !.op = "addOwner", !.pc = "email", !.email = e,
                        !.phone = p, !.pass = w, !.role = "restaurant"])

\* DELETE /auth/admin/restaurant-owner/:id.
DeleteRestaurantOwner(s, i) ==
  Begin(s, [Idle EXCEPT !.op = "deleteOwner", !.pc = "owner", !.user = i])

-----------------------------------------------------------------------------
(* validateOtpForEmail, validateOtpForPhone and markOtpCodeUsed.           *)

CodeAddress(r) == IF r.op = "verifyEmail" THEN r.email ELSE r.phone

\* Where a matching code leads each handler.
AfterMatch(op) == IF op \in {"register", "verifyEmail"} THEN "mark" ELSE "find"

\* Fault: one attempt too many before a code is closed.
SpentLate(i) == codes[i].attempts > MaxAttempts

\* Code i has had all its attempts.
Spent(i) == codes[i].attempts >= MaxAttempts

\* SELECT the newest unused code and compare.  A code that has expired, or no
\* code at all, ends the request.
ReadCode(s) ==
  LET r == request[s]
      a == CodeAddress(r)
  IN
    /\ r.pc = "code"
    /\ \/ Unused(a) = {} /\ Answer(s)
       \/ \E i \in Unused(a) :
            /\ IsNewest(i, a)
            /\ \/ codes[i].expired /\ Answer(s)
               \/ /\ ~codes[i].expired
                  /\ request' = [request EXCEPT ![s].row = i, ![s].pc =
                       IF Spent(i) THEN "exhaust"
                       ELSE IF codes[i].code # r.code THEN "wrong"
                       ELSE AfterMatch(r.op)]
                  /\ UNCHANGED begun
    /\ UNCHANGED <<users, codes>>

\* UPDATE ... SET attempts = attempts + 1.
CountAttempt(s) ==
  /\ request[s].pc = "wrong"
  /\ codes' = [codes EXCEPT ![request[s].row].attempts = @ + 1]
  /\ GoTo(s, "recount")
  /\ UNCHANGED users

RecountAttempts(s) ==
  /\ request[s].pc = "recount"
  /\ IF Spent(request[s].row) THEN GoTo(s, "exhaust") ELSE Answer(s)
  /\ UNCHANGED <<users, codes>>

\* "Too many failed attempts": UPDATE ... SET is_used = true.
CloseCode(s) ==
  /\ request[s].pc = "exhaust"
  /\ codes' = [codes EXCEPT ![request[s].row].used = TRUE]
  /\ Answer(s)
  /\ UNCHANGED users

\* Fault: the code is left unused, as verifyForgotPasswordOtp() leaves it.
MarkNothing(s) ==
  LET r == request[s] IN
    /\ r.pc = "mark"
    /\ codes' = [codes EXCEPT ![r.row].uses = @ + 1]
    /\ CASE r.op = "register" -> GoTo(s, "email")
         [] r.op = "reset" -> GoTo(s, "password")
         [] OTHER -> Answer(s)
    /\ UNCHANGED users

\* UPDATE ... SET is_used = true WHERE id = $1, whatever the row says by now.
MarkOtpCodeUsed(s) ==
  LET r == request[s] IN
    /\ r.pc = "mark"
    /\ codes' = [codes EXCEPT ![r.row].used = TRUE, ![r.row].uses = @ + 1]
    /\ CASE r.op = "register" -> GoTo(s, "email")
         [] r.op = "reset" -> GoTo(s, "password")
         [] OTHER -> Answer(s)
    /\ UNCHANGED users

-----------------------------------------------------------------------------
(* storeOtpForEmail and storeOtpForPhone: two statements for each channel, *)
(* the e-mail first.                                                       *)

IsNextAddress(s, a) ==
  /\ a \in request[s].todo
  /\ a \in Emails \/ request[s].todo \subseteq Phones

\* Fault: the earlier codes of the address stay open.
RetireNone(s) ==
  /\ request[s].pc = "retire"
  /\ GoTo(s, "store")
  /\ UNCHANGED <<users, codes>>

RetireCodes(s) ==
  /\ request[s].pc = "retire"
  /\ \E a \in request[s].todo :
       /\ IsNextAddress(s, a)
       /\ codes' = [i \in DOMAIN codes |->
            [codes[i] EXCEPT !.used = @ \/ codes[i].addr = a]]
  /\ GoTo(s, "store")
  /\ UNCHANGED users

\* INSERT the new code.  The messages go out once every code is stored; a
\* message that fails leaves the rows as they are.
StoreCode(s) ==
  /\ request[s].pc = "store"
  /\ \E a \in request[s].todo, c \in Codes :
       /\ IsNextAddress(s, a)
       /\ codes' = Append(codes, [addr |-> a, code |-> c, used |-> FALSE,
                                  expired |-> FALSE, attempts |-> 0, uses |-> 0])
       /\ IF request[s].todo = {a}
            THEN Answer(s)
            ELSE /\ request' = [request EXCEPT ![s].pc = "retire",
                                               ![s].todo = @ \ {a}]
                 /\ UNCHANGED begun
  /\ UNCHANGED users

-----------------------------------------------------------------------------
(* The statements on auth.users.                                           *)

\* existsByEmail.
CheckEmail(s) ==
  LET r == request[s] IN
    /\ r.pc = "email"
    /\ IF EmailTaken(r.email) THEN Answer(s)
       ELSE IF r.phone # None THEN GoTo(s, "phone") ELSE GoTo(s, "insert")
    /\ UNCHANGED <<users, codes>>

\* existsByPhone.
CheckPhone(s) ==
  LET r == request[s] IN
    /\ r.pc = "phone"
    /\ IF PhoneTaken(r.phone) THEN Answer(s)
       ELSE GoTo(s, IF r.op = "signup" THEN "retire" ELSE "insert")
    /\ UNCHANGED <<users, codes>>

\* User.create: a request that lost the race throws and answers 500.
CreateUser(s) ==
  LET r == request[s] IN
    /\ r.pc = "insert"
    /\ \/ /\ Insertable(r.email, r.phone)
          /\ users' = Append(users, UserRow(r.email, r.phone, r.pass, r.role))
       \/ ~Insertable(r.email, r.phone) /\ UNCHANGED users
    /\ Answer(s)
    /\ UNCHANGED codes

\* Fault: resetPassword() goes on without marking the code used.
FindUnmarked(s) ==
  LET r == request[s] IN
    /\ r.pc = "find"
    /\ IF ~PhoneTaken(r.phone) THEN Answer(s)
       ELSE \E i \in LiveUsers :
              /\ users[i].phone = r.phone
              /\ CASE r.op = "forgot" -> GoTo(s, "retire")
                   [] r.op = "verifyForgot" -> Answer(s)
                   [] OTHER -> /\ request' = [request EXCEPT ![s].pc = "password",
                                                             ![s].user = i]
                               /\ UNCHANGED begun
    /\ UNCHANGED <<users, codes>>

\* findByPhone.
FindByPhone(s) ==
  LET r == request[s] IN
    /\ r.pc = "find"
    /\ IF ~PhoneTaken(r.phone) THEN Answer(s)
       ELSE \E i \in LiveUsers :
              /\ users[i].phone = r.phone
              /\ CASE r.op = "forgot" -> GoTo(s, "retire")
                   [] r.op = "verifyForgot" -> Answer(s)
                   [] OTHER -> /\ request' = [request EXCEPT ![s].pc = "mark",
                                                             ![s].user = i]
                               /\ UNCHANGED begun
    /\ UNCHANGED <<users, codes>>

\* updatePasswordHash.
UpdatePasswordHash(s) ==
  LET r == request[s] IN
    /\ r.pc = "password"
    /\ users' = IF users[r.user].live
                  THEN [users EXCEPT ![r.user].pass = r.pass] ELSE users
    /\ Answer(s)
    /\ UNCHANGED codes

\* findById and the role check of deleteRestaurantOwner().
CheckOwner(s) ==
  LET i == request[s].user IN
    /\ request[s].pc = "owner"
    /\ IF i \in LiveUsers /\ users[i].role = "restaurant"
         THEN GoTo(s, "delete") ELSE Answer(s)
    /\ UNCHANGED <<users, codes>>

\* deleteById.
DeleteOwner(s) ==
  /\ request[s].pc = "delete"
  /\ users' = [users EXCEPT ![request[s].user].live = FALSE]
  /\ Answer(s)
  /\ UNCHANGED codes

-----------------------------------------------------------------------------
\* Ten minutes pass.
ExpireCode(i) ==
  /\ ~codes[i].expired
  /\ codes' = [codes EXCEPT ![i].expired = TRUE]
  /\ UNCHANGED <<users, request, begun>>

\* The service stops or loses the database in the middle of a request, or the
\* handler refuses it for a reason left out here.
Abandon(s) ==
  /\ request[s] # Idle
  /\ Answer(s)
  /\ UNCHANGED <<users, codes>>

BeginPublic(s) ==
  \/ \E e \in Emails, p \in Phones :
       \/ SignupRequestOtp(s, e, p)
       \/ \E c \in Codes, w \in Passwords, r \in SelfRoles :
            Register(s, e, p, c, w, r)
  \/ \E e \in Emails, c \in Codes : SignupEmailVerifyOtp(s, e, c)
  \/ \E p \in Phones :
       \/ ForgotPassword(s, p)
       \/ \E c \in Codes :
            \/ VerifyForgotPasswordOtp(s, p, c)
            \/ \E w \in Passwords : ResetPassword(s, p, c, w)

BeginAdmin(s) ==
  \/ \E e \in Emails, p \in Phones \cup {None}, w \in Passwords :
       \/ AddAdmin(s, e, p, w)
       \/ p # None /\ AddRestaurantOwner(s, e, p, w)
  \/ \E i \in DOMAIN users : DeleteRestaurantOwner(s, i)

Statement(s) ==
  \/ ReadCode(s) \/ CountAttempt(s) \/ RecountAttempts(s) \/ CloseCode(s)
  \/ MarkOtpCodeUsed(s) \/ RetireCodes(s) \/ StoreCode(s)
  \/ CheckEmail(s) \/ CheckPhone(s) \/ CreateUser(s) \/ FindByPhone(s)
  \/ UpdatePasswordHash(s) \/ CheckOwner(s) \/ DeleteOwner(s)

AccountsNext ==
  \/ \E s \in Slots :
       BeginPublic(s) \/ BeginAdmin(s) \/ Statement(s) \/ Abandon(s)
  \/ \E i \in DOMAIN codes : ExpireCode(i)

-----------------------------------------------------------------------------
(* Properties.                                                             *)

\* Requests that have read code i, found it right and not marked it yet.
Holding(i) ==
  {s \in Slots : request[s].row = i /\ request[s].pc \in {"find", "mark"}}

\* Requests that have read code i as worth a guess and not counted it yet.
Guessing(i) == {s \in Slots : request[s].row = i /\ request[s].pc = "wrong"}

\* Requests between the two statements that store a code for address a.
Storing(a) ==
  {s \in Slots : request[s].pc = "store" /\ IsNextAddress(s, a)}

\* storeOtpFor...() retires the codes of an address before it inserts one, in
\* two statements: overlapping requests can leave several codes open, never
\* more than there are requests at once.
OpenCodesBounded ==
  \A a \in Addresses : Cardinality(Unused(a)) <= Cardinality(Slots)

\* validateOtp...() reads the count before it adds to it, so concurrent wrong
\* guesses pass the limit; by how much is bounded by the requests at once.
GuessesBounded ==
  \A i \in DOMAIN codes :
    codes[i].attempts <= MaxAttempts - 1 + Cardinality(Slots)

\* A code is matched in one statement and marked in a later one, so several
\* registrations, verifications or resets can pass on one code: no more than
\* were running when it was first marked.
UsesBounded ==
  \A i \in DOMAIN codes : codes[i].uses <= Cardinality(Slots)

\* resetPassword() is the one way to a new password: whenever an account's
\* password changes, some code sent to a phone of the account has been matched
\* and spent.  It finds the account by phone and writes it by id two statements
\* later, so the phone may be an earlier one: updateEmployee() and
\* updateDriver() of Staff change it whatever requests are running.
PasswordsProven ==
  [][\A i \in DOMAIN users : users'[i].pass # users[i].pass =>
       \E j \in DOMAIN codes :
         codes[j].addr \in users[i].had /\ codes[j].used /\ codes[j].uses > 0
    ]_accountVars

AccountsSpec == AccountsInit /\ [][AccountsNext]_accountVars
=============================================================================
