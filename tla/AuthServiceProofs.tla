------------------------- MODULE AuthServiceProofs --------------------------
(***************************************************************************)
(* What the auth service guarantees, for every number of concurrent        *)
(* requests, jobs and transactions, and every set of addresses: by how     *)
(* much requests that overlap can pass the limits on one-time codes, that  *)
(* a password changes only on a code sent to the account's phone, by how   *)
(* much overlapping changes can multiply default addresses, that no hire   *)
(* ends half-made, and that a driver works only by a decision.             *)
(***************************************************************************)
EXTENDS AuthService, FiniteSetTheorems, TLAPS

\* What a request r holds on to at each statement.
Fits(r) ==
  /\ r.pc = "code" => r.op \in {"register", "verifyEmail", "verifyForgot", "reset"}
  /\ r.pc = "find" =>
       /\ r.op \in {"forgot", "verifyForgot", "reset"}
       /\ r.op # "forgot" => r.row \in DOMAIN codes /\ codes[r.row].addr = r.phone
  /\ r.pc \in {"wrong", "recount", "exhaust", "mark"} => r.row \in DOMAIN codes
  /\ r.pc = "mark" => r.op \in {"register", "verifyEmail", "reset"}
  /\ r.pc = "password" => r.op = "reset"
  /\ r.pc \in {"email", "phone"} => r.op \in {"signup", "register", "addAdmin", "addOwner"}
  /\ r.pc = "insert" => r.op \in {"register", "addAdmin", "addOwner"}
  /\ r.pc = "delete" => r.user \in DOMAIN users
  /\ r.pc # "idle" /\ r.op \in {"register", "addAdmin", "addOwner"} =>
       r.email \in Emails /\ r.pass \in Passwords /\ r.role \in Roles
  /\ r.pc # "idle" /\ r.op = "signup" => r.phone # None
  /\ r.pc # "idle" /\ r.op = "reset" => r.pass \in Passwords
  /\ r.todo \subseteq {r.email, r.phone}
  /\ r.pc \in {"mark", "password"} /\ r.op = "reset" =>
       /\ r.user \in DOMAIN users
       /\ r.row \in DOMAIN codes /\ codes[r.row].addr = r.phone
  /\ r.pc = "password" => codes[r.row].used /\ codes[r.row].uses > 0

RequestsFit == \A s \in Slots : Fits(request[s])

\* The limits, each counting the requests that are about to pass it.
CountsFit ==
  /\ \A a \in Addresses :
       Cardinality(Unused(a)) + Cardinality(Storing(a)) <= Cardinality(Slots)
  /\ \A i \in DOMAIN codes :
       /\ codes[i].attempts + Cardinality(Guessing(i))
            <= MaxAttempts - 1 + Cardinality(Slots)
       /\ ~codes[i].used => codes[i].uses = 0
       /\ codes[i].uses + Cardinality(Holding(i)) <= Cardinality(Slots)

AccountsInv == AccountsTypeOK /\ RequestsFit /\ CountsFit

-----------------------------------------------------------------------------
(* Tables that only grow.                                                  *)

\* Rows keep their place and codes their address; used codes stay used.
Grows ==
  /\ DOMAIN codes \subseteq DOMAIN codes'
  /\ DOMAIN users \subseteq DOMAIN users'
  /\ \A j \in DOMAIN codes :
       /\ codes'[j].addr = codes[j].addr
       /\ codes[j].used => codes'[j].used
       /\ codes[j].uses > 0 => codes'[j].uses > 0

LEMMA FitsStays == ASSUME Grows, NEW r, Fits(r) PROVE Fits(r)'
BY DEF Fits, Grows

\* One request moves on, over tables that grew.
LEMMA OneMoves ==
  ASSUME AccountsTypeOK, RequestsFit, Grows, NEW s \in Slots, NEW q \in Request,
         Fits(q)', request' = [request EXCEPT ![s] = q]
  PROVE  request' \in [Slots -> Request] /\ RequestsFit'
<1>1. request' \in [Slots -> Request]
  BY DEF AccountsTypeOK
<1>2. ASSUME NEW x \in Slots PROVE Fits(request[x])'
  <2>1. CASE x = s
    BY <2>1 DEF AccountsTypeOK, Fits
  <2>2. CASE x # s
    <3>1. Fits(request[x]) /\ request'[x] = request[x]
      BY <2>2 DEF RequestsFit, AccountsTypeOK
    <3> QED
      BY <3>1, FitsStays DEF Fits
  <2> QED
    BY <2>1, <2>2
<1> QED
  BY <1>1, <1>2 DEF RequestsFit

-----------------------------------------------------------------------------
(* Counting.                                                               *)

LEMMA SlotsCount ==
  ASSUME NEW T, T \subseteq Slots
  PROVE  /\ IsFiniteSet(T) /\ Cardinality(T) \in Nat
         /\ Cardinality(T) <= Cardinality(Slots)
         /\ Cardinality(Slots) \in Nat
<1>1. IsFiniteSet(Slots)
  BY AccountsAssumption
<1>2. IsFiniteSet(T) /\ Cardinality(T) <= Cardinality(Slots)
  BY <1>1, FS_Subset
<1> QED
  BY <1>1, <1>2, FS_CardinalityType

LEMMA FewerSlots ==
  ASSUME NEW A, A \subseteq Slots, NEW B, B \subseteq A
  PROVE  Cardinality(B) <= Cardinality(A) /\ Cardinality(A) \in Nat /\ Cardinality(B) \in Nat
<1>1. IsFiniteSet(A) /\ B \subseteq Slots
  BY SlotsCount
<1> QED
  BY <1>1, SlotsCount, FS_Subset

LEMMA SlotLeaves ==
  ASSUME NEW A, A \subseteq Slots, NEW s \in A, NEW B, B \subseteq A \ {s}
  PROVE  Cardinality(B) + 1 <= Cardinality(A) /\ Cardinality(A) \in Nat /\ Cardinality(B) \in Nat
<1>1. IsFiniteSet(A) /\ Cardinality(A) \in Nat
  BY SlotsCount
<1>2. Cardinality(A \ {s}) = Cardinality(A) - 1
  BY <1>1, FS_RemoveElement
<1>3. Cardinality(B) <= Cardinality(A \ {s}) /\ Cardinality(B) \in Nat
  BY FewerSlots
<1> QED
  BY <1>1, <1>2, <1>3

LEMMA SetsOfSlots ==
  /\ \A a : Storing(a) \subseteq Slots /\ Storing(a)' \subseteq Slots
  /\ \A i : Guessing(i) \subseteq Slots /\ Guessing(i)' \subseteq Slots
  /\ \A i : Holding(i) \subseteq Slots /\ Holding(i)' \subseteq Slots
BY DEF Storing, Guessing, Holding

\* The rows of the tables.
LEMMA RowsAre ==
  ASSUME AccountsTypeOK
  PROVE  /\ DOMAIN codes = 1..Len(codes) /\ Len(codes) \in Nat
         /\ \A i \in DOMAIN codes : codes[i] \in Code
         /\ DOMAIN users = 1..Len(users) /\ Len(users) \in Nat
         /\ \A i \in DOMAIN users : users[i] \in User
BY DEF AccountsTypeOK

LEMMA CodesCount ==
  ASSUME AccountsTypeOK, NEW T, T \subseteq DOMAIN codes
  PROVE  IsFiniteSet(T) /\ Cardinality(T) \in Nat
<1>1. IsFiniteSet(DOMAIN codes)
  <2>1. DOMAIN codes = 1..Len(codes) /\ Len(codes) \in Nat
    BY RowsAre
  <2> QED
    BY <2>1, FS_Interval
<1>2. IsFiniteSet(T)
  BY <1>1, FS_Subset
<1> QED
  BY <1>2, FS_CardinalityType

LEMMA FewerCodes ==
  ASSUME AccountsTypeOK, NEW T, T \subseteq DOMAIN codes, NEW U, U \subseteq T
  PROVE  Cardinality(U) <= Cardinality(T) /\ Cardinality(U) \in Nat /\ Cardinality(T) \in Nat
BY CodesCount, FS_Subset

\* No more codes of address a are open, or about to be.
LEMMA OpenStays ==
  ASSUME AccountsTypeOK, CountsFit, NEW a \in Addresses,
         Unused(a)' \subseteq Unused(a), Storing(a)' \subseteq Storing(a)
  PROVE  Cardinality(Unused(a)') + Cardinality(Storing(a)') <= Cardinality(Slots)
<1>1. Unused(a)' \subseteq Unused(a) /\ Unused(a) \subseteq DOMAIN codes
  BY DEF Unused
<1>2. /\ Cardinality(Unused(a)') <= Cardinality(Unused(a))
      /\ Cardinality(Unused(a)') \in Nat /\ Cardinality(Unused(a)) \in Nat
  BY <1>1, FewerCodes
<1>3. /\ Cardinality(Storing(a)') <= Cardinality(Storing(a))
      /\ Cardinality(Storing(a)') \in Nat /\ Cardinality(Storing(a)) \in Nat
  BY SetsOfSlots, FewerSlots
<1>4. /\ Cardinality(Unused(a)) + Cardinality(Storing(a)) <= Cardinality(Slots)
      /\ Cardinality(Slots) \in Nat
  BY SlotsCount DEF CountsFit
<1> QED
  BY <1>2, <1>3, <1>4

\* No more guesses are made at code i, or about to be counted.
LEMMA GuessesStay ==
  ASSUME AccountsTypeOK, CountsFit, NEW i \in DOMAIN codes,
         codes'[i].attempts = codes[i].attempts, Guessing(i)' \subseteq Guessing(i)
  PROVE  codes'[i].attempts + Cardinality(Guessing(i)') <= MaxAttempts - 1 + Cardinality(Slots)
<1>1. codes[i].attempts \in Nat
  BY RowsAre DEF Code
<1>2. MaxAttempts \in Nat \ {0} /\ Cardinality(Slots) \in Nat
  BY AccountsAssumption, SlotsCount
<1>3. /\ Cardinality(Guessing(i)') <= Cardinality(Guessing(i))
      /\ Cardinality(Guessing(i)') \in Nat /\ Cardinality(Guessing(i)) \in Nat
  BY SetsOfSlots, FewerSlots
<1>4. codes[i].attempts + Cardinality(Guessing(i)) <= MaxAttempts - 1 + Cardinality(Slots)
  BY DEF CountsFit
<1> QED
  BY <1>1, <1>2, <1>3, <1>4

\* No more requests have used code i, or are about to.
LEMMA UsesStay ==
  ASSUME AccountsTypeOK, CountsFit, NEW i \in DOMAIN codes,
         codes'[i].uses = codes[i].uses, codes[i].used => codes'[i].used,
         Holding(i)' \subseteq Holding(i)
  PROVE  /\ ~codes'[i].used => codes'[i].uses = 0
         /\ codes'[i].uses + Cardinality(Holding(i)') <= Cardinality(Slots)
<1>1. codes[i].uses \in Nat /\ Cardinality(Slots) \in Nat
  BY RowsAre, SlotsCount DEF Code
<1>2. /\ Cardinality(Holding(i)') <= Cardinality(Holding(i))
      /\ Cardinality(Holding(i)') \in Nat /\ Cardinality(Holding(i)) \in Nat
  BY SetsOfSlots, FewerSlots
<1>3. /\ ~codes[i].used => codes[i].uses = 0
      /\ codes[i].uses + Cardinality(Holding(i)) <= Cardinality(Slots)
  BY DEF CountsFit
<1>4. codes'[i].uses + Cardinality(Holding(i)') <= Cardinality(Slots)
  BY <1>1, <1>2, <1>3
<1> QED
  BY <1>3, <1>4

\* The limits hold after a step when each of them does.
LEMMA CountsAfter ==
  ASSUME \A a \in Addresses :
           Cardinality(Unused(a)') + Cardinality(Storing(a)') <= Cardinality(Slots),
         \A i \in DOMAIN codes' :
           codes'[i].attempts + Cardinality(Guessing(i)') <= MaxAttempts - 1 + Cardinality(Slots),
         \A i \in DOMAIN codes' :
           /\ ~codes'[i].used => codes'[i].uses = 0
           /\ codes'[i].uses + Cardinality(Holding(i)') <= Cardinality(Slots)
  PROVE  CountsFit'
BY Zenon DEF CountsFit

\* Steps after which no more requests are about to pass a limit.
LEMMA QuietCounts ==
  ASSUME AccountsTypeOK, CountsFit, DOMAIN codes' = DOMAIN codes,
         \A i \in DOMAIN codes :
           /\ codes'[i].addr = codes[i].addr
           /\ codes'[i].attempts = codes[i].attempts
           /\ codes'[i].uses = codes[i].uses
           /\ codes[i].used => codes'[i].used
           /\ Guessing(i)' \subseteq Guessing(i)
           /\ Holding(i)' \subseteq Holding(i),
         \A a \in Addresses : Storing(a)' \subseteq Storing(a)
  PROVE  CountsFit'
<1>1. \A a \in Addresses : Unused(a)' \subseteq Unused(a)
  BY DEF Unused
<1>2. \A a \in Addresses :
        Cardinality(Unused(a)') + Cardinality(Storing(a)') <= Cardinality(Slots)
  BY <1>1, OpenStays
<1>3. \A i \in DOMAIN codes' :
        codes'[i].attempts + Cardinality(Guessing(i)') <= MaxAttempts - 1 + Cardinality(Slots)
  BY GuessesStay
<1>4. \A i \in DOMAIN codes' :
        /\ ~codes'[i].used => codes'[i].uses = 0
        /\ codes'[i].uses + Cardinality(Holding(i)') <= Cardinality(Slots)
  BY UsesStay
<1> QED
  BY <1>2, <1>3, <1>4, CountsAfter

\* A request that moves on and is not about to pass a limit.
LEMMA QuietMove ==
  ASSUME AccountsTypeOK, CountsFit, UNCHANGED codes, NEW s \in Slots, NEW q \in Request,
         request' = [request EXCEPT ![s] = q],
         q.pc \notin {"wrong", "store"},
         q.pc \in {"find", "mark"} /\ q.row \in DOMAIN codes =>
           request[s].pc \in {"find", "mark"} /\ request[s].row = q.row
  PROVE  CountsFit'
<1>1. request'[s] = q /\ \A x \in Slots : x # s => request'[x] = request[x]
  BY DEF AccountsTypeOK
<1>2. \A i \in DOMAIN codes : Guessing(i)' \subseteq Guessing(i) /\ Holding(i)' \subseteq Holding(i)
  BY <1>1 DEF Guessing, Holding
<1>3. \A a \in Addresses : Storing(a)' \subseteq Storing(a)
  BY <1>1 DEF Storing, IsNextAddress
<1> QED
  BY <1>2, <1>3, QuietCounts

-----------------------------------------------------------------------------
(* Steps that leave the codes alone.                                       *)

\* A request moves on, quietly; the accounts may change.
LEMMA MoveKeeps ==
  ASSUME AccountsInv, NEW s \in Slots, NEW q \in Request,
         request' = [request EXCEPT ![s] = q], UNCHANGED codes,
         users' \in Seq(User), begun' \in 0..MaxRequests, Grows, Fits(q)',
         q.pc \notin {"wrong", "store"},
         q.pc \in {"find", "mark"} /\ q.row \in DOMAIN codes =>
           request[s].pc \in {"find", "mark"} /\ request[s].row = q.row
  PROVE  AccountsInv'
<1>1. request' \in [Slots -> Request] /\ RequestsFit'
  BY OneMoves DEF AccountsInv
<1>2. CountsFit'
  BY QuietMove DEF AccountsInv
<1> QED
  BY <1>1, <1>2 DEF AccountsInv, AccountsTypeOK

LEMMA IdleFits == Idle \in Request /\ Fits(Idle) /\ Fits(Idle)' /\ Idle.pc = "idle"
BY DEF Idle, Request, Fits, Steps

LEMMA AnswerKeeps ==
  ASSUME AccountsInv, NEW s \in Slots, Answer(s), UNCHANGED codes,
         users' \in Seq(User), Grows
  PROVE  AccountsInv'
<1>1. begun' \in 0..MaxRequests
  BY DEF Answer, AccountsInv, AccountsTypeOK
<1> QED
  BY <1>1, IdleFits, MoveKeeps DEF Answer

LEMMA SameGrows == ASSUME UNCHANGED <<users, codes>> PROVE Grows
BY DEF Grows

LEMMA AnswerOnly ==
  ASSUME AccountsInv, NEW s \in Slots, Answer(s), UNCHANGED <<users, codes>>
  PROVE  AccountsInv'
BY SameGrows, AnswerKeeps DEF AccountsInv, AccountsTypeOK

\* A request goes to a statement that is not about to pass a limit.
LEMMA GoToKeeps ==
  ASSUME AccountsInv, NEW s \in Slots, NEW step \in Steps, GoTo(s, step),
         UNCHANGED <<users, codes>>,
         step \notin {"wrong", "store", "find", "mark"},
         Fits([request[s] EXCEPT !.pc = step])
  PROVE  AccountsInv'
<1> DEFINE q == [request[s] EXCEPT !.pc = step]
<1>1. request[s] \in Request /\ users \in Seq(User) /\ begun \in 0..MaxRequests
  BY DEF AccountsInv, AccountsTypeOK
<1>2. q \in Request /\ q.pc = step
  BY <1>1 DEF Request
<1>3. request' = [request EXCEPT ![s] = q] /\ UNCHANGED begun
  BY DEF GoTo
<1>4. \A r : Fits(r) => Fits(r)'
  BY SameGrows, FitsStays
<1>5. PICK r : r = q
  OBVIOUS
<1>6. r \in Request /\ r.pc = step /\ request' = [request EXCEPT ![s] = r] /\ Fits(r)
  BY <1>2, <1>3, <1>5 DEF Fits
<1> HIDE DEF q
<1> QED
  BY <1>1, <1>3, <1>4, <1>6, SameGrows, MoveKeeps

LEMMA BeginKeeps ==
  ASSUME AccountsInv, NEW s \in Slots, NEW q \in Request, Begin(s, q), Fits(q),
         q.pc \notin {"wrong", "store", "mark"}, q.row = 0
  PROVE  AccountsInv'
<1>1. /\ UNCHANGED <<users, codes>> /\ users' \in Seq(User)
      /\ begun' \in 0..MaxRequests
      /\ request' = [request EXCEPT ![s] = q]
  BY AccountsAssumption DEF Begin, AccountsInv, AccountsTypeOK
<1>2. Grows /\ Fits(q)'
  BY <1>1, SameGrows, FitsStays
<1>3. q.row \notin DOMAIN codes
  BY RowsAre DEF AccountsInv
<1> QED
  BY <1>1, <1>2, <1>3, MoveKeeps

\* One account changes and keeps its phone.
LEMMA AccountChanges ==
  ASSUME AccountsTypeOK, UNCHANGED codes, NEW i \in DOMAIN users, NEW u \in User,
         u.phone = users[i].phone, users' \in {users, [users EXCEPT ![i] = u]}
  PROVE  users' \in Seq(User) /\ Grows
<1>1. users \in Seq(User) /\ [users EXCEPT ![i] = u] \in Seq(User)
  BY DEF AccountsTypeOK
<1>2. DOMAIN users' = DOMAIN users
  BY <1>1
<1>3. \A k \in DOMAIN users : users'[k].phone = users[k].phone
  BY <1>1
<1> QED
  BY <1>1, <1>2, <1>3 DEF Grows

LEMMA PublicKeeps ==
  ASSUME AccountsInv, NEW s \in Slots, BeginPublic(s) PROVE AccountsInv'
<1>1. ASSUME NEW e \in Emails, NEW p \in Phones, SignupRequestOtp(s, e, p) PROVE AccountsInv'
  <2>1. PICK channels \in SUBSET {e, p} :
          Begin(s, [Idle EXCEPT !.op = "signup", !.pc = "email", !.email = e,
                                !.phone = p, !.todo = channels])
    BY <1>1 DEF SignupRequestOtp
  <2>2. PICK q : q = [Idle EXCEPT !.op = "signup", !.pc = "email", !.email = e,
                                  !.phone = p, !.todo = channels]
    OBVIOUS
  <2>3. q \in Request /\ Fits(q)
    BY <2>2, AccountsAssumption DEF Idle, Request, Fits, Steps, Ops, Addresses
  <2>4. q.pc = "email" /\ q.row = 0
    BY <2>2 DEF Idle
  <2> QED
    BY <2>1, <2>2, <2>3, <2>4, BeginKeeps
<1>2. ASSUME NEW e \in Emails, NEW p \in Phones, NEW c \in Codes, NEW w \in Passwords,
             NEW r \in SelfRoles, Register(s, e, p, c, w, r)
      PROVE  AccountsInv'
  <2>1. PICK q : q = [Idle EXCEPT !.op = "register", !.pc = "code", !.email = e,
                                  !.phone = p, !.code = c, !.pass = w, !.role = r]
    OBVIOUS
  <2>2. q \in Request /\ Fits(q)
    BY <2>1 DEF Idle, Request, Fits, Steps, Ops, Roles
  <2>3. q.pc = "code" /\ q.row = 0 /\ Begin(s, q)
    BY <1>2, <2>1 DEF Idle, Register
  <2> QED
    BY <2>2, <2>3, BeginKeeps
<1>3. ASSUME NEW e \in Emails, NEW c \in Codes, SignupEmailVerifyOtp(s, e, c)
      PROVE  AccountsInv'
  <2>1. PICK q : q = [Idle EXCEPT !.op = "verifyEmail", !.pc = "code", !.email = e,
                                  !.code = c]
    OBVIOUS
  <2>2. q \in Request /\ Fits(q)
    BY <2>1 DEF Idle, Request, Fits, Steps, Ops
  <2>3. q.pc = "code" /\ q.row = 0 /\ Begin(s, q)
    BY <1>3, <2>1 DEF Idle, SignupEmailVerifyOtp
  <2> QED
    BY <2>2, <2>3, BeginKeeps
<1>4. ASSUME NEW p \in Phones, ForgotPassword(s, p) PROVE AccountsInv'
  <2>1. PICK q : q = [Idle EXCEPT !.op = "forgot", !.pc = "find", !.phone = p, !.todo = {p}]
    OBVIOUS
  <2>2. q \in Request /\ Fits(q)
    BY <2>1 DEF Idle, Request, Fits, Steps, Ops, Addresses
  <2>3. q.pc = "find" /\ q.row = 0 /\ Begin(s, q)
    BY <1>4, <2>1 DEF Idle, ForgotPassword
  <2> QED
    BY <2>2, <2>3, BeginKeeps
<1>5. ASSUME NEW p \in Phones, NEW c \in Codes, VerifyForgotPasswordOtp(s, p, c)
      PROVE  AccountsInv'
  <2>1. PICK q : q = [Idle EXCEPT !.op = "verifyForgot", !.pc = "code", !.phone = p,
                                  !.code = c]
    OBVIOUS
  <2>2. q \in Request /\ Fits(q)
    BY <2>1 DEF Idle, Request, Fits, Steps, Ops
  <2>3. q.pc = "code" /\ q.row = 0 /\ Begin(s, q)
    BY <1>5, <2>1 DEF Idle, VerifyForgotPasswordOtp
  <2> QED
    BY <2>2, <2>3, BeginKeeps
<1>6. ASSUME NEW p \in Phones, NEW c \in Codes, NEW w \in Passwords, ResetPassword(s, p, c, w)
      PROVE  AccountsInv'
  <2>1. PICK q : q = [Idle EXCEPT !.op = "reset", !.pc = "code", !.phone = p,
                                  !.code = c, !.pass = w]
    OBVIOUS
  <2>2. q \in Request /\ Fits(q)
    BY <2>1 DEF Idle, Request, Fits, Steps, Ops
  <2>3. q.pc = "code" /\ q.row = 0 /\ Begin(s, q)
    BY <1>6, <2>1 DEF Idle, ResetPassword
  <2> QED
    BY <2>2, <2>3, BeginKeeps
<1> QED
  BY <1>1, <1>2, <1>3, <1>4, <1>5, <1>6 DEF BeginPublic

LEMMA AdminKeeps ==
  ASSUME AccountsInv, NEW s \in Slots, BeginAdmin(s) PROVE AccountsInv'
<1>1. ASSUME NEW e \in Emails, NEW p \in Phones \cup {None}, NEW w \in Passwords,
             AddAdmin(s, e, p, w) \/ AddRestaurantOwner(s, e, p, w)
      PROVE  AccountsInv'
  <2>1. ASSUME NEW op \in {"addAdmin", "addOwner"}, NEW r \in Roles,
               Begin(s, [Idle EXCEPT !.op = op, !.pc = "email", !.email = e,
                                     !.phone = p, !.pass = w, !.role = r])
        PROVE  AccountsInv'
    <3>1. PICK q : q = [Idle EXCEPT !.op = op, !.pc = "email", !.email = e,
                                    !.phone = p, !.pass = w, !.role = r]
      OBVIOUS
    <3>2. q \in Request /\ Fits(q)
      BY <3>1 DEF Idle, Request, Fits, Steps, Ops
    <3>3. q.pc = "email" /\ q.row = 0 /\ Begin(s, q)
      BY <2>1, <3>1 DEF Idle
    <3> QED
      BY <3>2, <3>3, BeginKeeps
  <2>2. "admin" \in Roles /\ "restaurant" \in Roles
    BY DEF Roles, SelfRoles
  <2> QED
    BY <1>1, <2>1, <2>2 DEF AddAdmin, AddRestaurantOwner
<1>2. ASSUME NEW i \in DOMAIN users, DeleteRestaurantOwner(s, i) PROVE AccountsInv'
  <2>1. PICK q : q = [Idle EXCEPT !.op = "deleteOwner", !.pc = "owner", !.user = i]
    OBVIOUS
  <2>2. i \in Nat
    BY RowsAre DEF AccountsInv
  <2>3. q \in Request /\ Fits(q)
    BY <2>1, <2>2 DEF Idle, Request, Fits, Steps, Ops
  <2>4. q.pc = "owner" /\ q.row = 0 /\ Begin(s, q)
    BY <1>2, <2>1 DEF Idle, DeleteRestaurantOwner
  <2> QED
    BY <2>3, <2>4, BeginKeeps
<1> QED
  BY <1>1, <1>2 DEF BeginAdmin

\* The statements on auth.users, and those that only choose the next one.
LEMMA UserStatementsKeep ==
  ASSUME AccountsInv, NEW s \in Slots,
         \/ RecountAttempts(s) \/ CheckEmail(s) \/ CheckPhone(s) \/ CreateUser(s)
         \/ FindByPhone(s) \/ UpdatePasswordHash(s) \/ CheckOwner(s) \/ DeleteOwner(s)
  PROVE  AccountsInv'
<1> DEFINE r == request[s]
<1>1. r \in Request /\ Fits(r) /\ AccountsTypeOK
  BY DEF AccountsInv, AccountsTypeOK, RequestsFit
<1>2. ASSUME Answer(s), UNCHANGED <<users, codes>> PROVE AccountsInv'
  BY <1>2, AnswerOnly
<1>3. CASE RecountAttempts(s)
  <2>1. ASSUME r.pc = "recount", GoTo(s, "exhaust"), UNCHANGED <<users, codes>>
        PROVE  AccountsInv'
    <3>1. Fits([r EXCEPT !.pc = "exhaust"])
      BY <1>1, <2>1 DEF Fits, Request
    <3> QED
      BY <2>1, <3>1, GoToKeeps DEF Steps
  <2> QED
    BY <1>2, <1>3, <2>1 DEF RecountAttempts
<1>4. CASE CheckEmail(s)
  <2>1. ASSUME r.pc = "email", r.phone # None, GoTo(s, "phone"), UNCHANGED <<users, codes>>
        PROVE  AccountsInv'
    <3>1. Fits([r EXCEPT !.pc = "phone"])
      BY <1>1, <2>1 DEF Fits, Request
    <3> QED
      BY <2>1, <3>1, GoToKeeps DEF Steps
  <2>2. ASSUME r.pc = "email", r.phone = None, GoTo(s, "insert"), UNCHANGED <<users, codes>>
        PROVE  AccountsInv'
    <3>1. Fits([r EXCEPT !.pc = "insert"])
      BY <1>1, <2>2 DEF Fits, Request
    <3> QED
      BY <2>2, <3>1, GoToKeeps DEF Steps
  <2> QED
    BY <1>2, <1>4, <2>1, <2>2 DEF CheckEmail
<1>5. CASE CheckPhone(s)
  <2>1. ASSUME r.pc = "phone", NEW x \in {"retire", "insert"}, GoTo(s, x),
               x = IF r.op = "signup" THEN "retire" ELSE "insert", UNCHANGED <<users, codes>>
        PROVE  AccountsInv'
    <3>1. Fits([r EXCEPT !.pc = x])
      BY <1>1, <2>1 DEF Fits, Request
    <3> QED
      BY <2>1, <3>1, GoToKeeps DEF Steps
  <2> QED
    BY <1>2, <1>5, <2>1 DEF CheckPhone
<1>6. CASE CreateUser(s)
  <2>1. UserRow(r.email, r.phone, r.pass, r.role) \in User
    BY <1>1, <1>6 DEF CreateUser, Fits, Request, UserRow, User
  <2>2. CASE users' = Append(users, UserRow(r.email, r.phone, r.pass, r.role))
    <3>1. users' \in Seq(User) /\ Grows
      BY <1>1, <1>6, <2>1, <2>2, RowsAre DEF CreateUser, Grows, AccountsTypeOK
    <3> QED
      BY <1>6, <3>1, AnswerKeeps DEF CreateUser
  <2> QED
    BY <1>2, <1>6, <2>2 DEF CreateUser
<1>7. CASE FindByPhone(s)
  <2>1. ASSUME r.pc = "find", r.op = "forgot", GoTo(s, "retire"), UNCHANGED <<users, codes>>
        PROVE  AccountsInv'
    <3>1. Fits([r EXCEPT !.pc = "retire"])
      BY <1>1, <2>1 DEF Fits, Request
    <3> QED
      BY <2>1, <3>1, GoToKeeps DEF Steps
  <2>2. ASSUME NEW i \in LiveUsers, users[i].phone = r.phone, r.pc = "find",
               r.op \notin {"forgot", "verifyForgot"},
               request' = [request EXCEPT ![s].pc = "mark", ![s].user = i],
               UNCHANGED <<users, codes, begun>>
        PROVE  AccountsInv'
    <3>1. PICK q : q = [r EXCEPT !.pc = "mark", !.user = i]
      OBVIOUS
    <3>2. i \in DOMAIN users /\ i \in Nat
      BY <1>1, RowsAre DEF LiveUsers
    <3>3. q \in Request /\ q.pc = "mark" /\ q.row = r.row
      BY <1>1, <3>1, <3>2 DEF Request, Steps
    <3>4. Fits(q)
      BY <1>1, <2>2, <3>1, <3>2 DEF Fits, Request
    <3>5. Grows /\ Fits(q)'
      BY <2>2, <3>4, SameGrows, FitsStays
    <3>6. request' = [request EXCEPT ![s] = q]
      BY <1>1, <2>2, <3>1 DEF AccountsTypeOK
    <3> HIDE DEF r
    <3>7. request[s].pc = "find" /\ request[s].row = q.row
      BY <2>2, <3>3 DEF r
    <3> QED
      BY <1>1, <2>2, <3>3, <3>5, <3>6, <3>7, MoveKeeps DEF AccountsTypeOK
  <2> QED
    BY <1>2, <1>7, <2>1, <2>2 DEF FindByPhone
<1>8. CASE UpdatePasswordHash(s)
  <2>1. r.user \in DOMAIN users /\ r.pass \in Passwords
    BY <1>1, <1>8 DEF UpdatePasswordHash, Fits
  <2>2. users[r.user] \in User
    BY <1>1, <2>1, RowsAre
  <2>3. PICK u : u = [users[r.user] EXCEPT !.pass = r.pass]
    OBVIOUS
  <2>4. u \in User /\ u.phone = users[r.user].phone
    BY <2>1, <2>2, <2>3 DEF User
  <2>5. users' = users \/ users' = [users EXCEPT ![r.user] = u]
    BY <1>8, <2>3 DEF UpdatePasswordHash
  <2>6. users' \in Seq(User) /\ Grows
    BY <1>1, <1>8, <2>1, <2>4, <2>5, AccountChanges DEF UpdatePasswordHash
  <2> QED
    BY <1>8, <2>6, AnswerKeeps DEF UpdatePasswordHash
<1>9. CASE CheckOwner(s)
  <2>1. ASSUME r.pc = "owner", r.user \in LiveUsers, GoTo(s, "delete"),
               UNCHANGED <<users, codes>>
        PROVE  AccountsInv'
    <3>1. Fits([r EXCEPT !.pc = "delete"])
      BY <1>1, <2>1 DEF Fits, Request, LiveUsers
    <3> QED
      BY <2>1, <3>1, GoToKeeps DEF Steps
  <2> QED
    BY <1>2, <1>9, <2>1 DEF CheckOwner
<1>10. CASE DeleteOwner(s)
  <2>1. r.user \in DOMAIN users
    BY <1>1, <1>10 DEF DeleteOwner, Fits
  <2>2. users[r.user] \in User
    BY <1>1, <2>1, RowsAre
  <2>3. PICK u : u = [users[r.user] EXCEPT !.live = FALSE]
    OBVIOUS
  <2>4. u \in User /\ u.phone = users[r.user].phone
    BY <2>2, <2>3 DEF User
  <2>5. users' = [users EXCEPT ![r.user] = u]
    BY <1>10, <2>3 DEF DeleteOwner
  <2>6. users' \in Seq(User) /\ Grows
    BY <1>1, <1>10, <2>1, <2>4, <2>5, AccountChanges DEF DeleteOwner
  <2> QED
    BY <1>10, <2>6, AnswerKeeps DEF DeleteOwner
<1> QED
  BY <1>3, <1>4, <1>5, <1>6, <1>7, <1>8, <1>9, <1>10

-----------------------------------------------------------------------------
(* The statements on auth.otp_codes.                                       *)

\* One code changes; what is used stays used.
LEMMA CodeChanges ==
  ASSUME AccountsTypeOK, UNCHANGED users, NEW i \in DOMAIN codes, NEW e \in Code,
         codes' = [codes EXCEPT ![i] = e], e.addr = codes[i].addr,
         codes[i].used => e.used, codes[i].uses > 0 => e.uses > 0
  PROVE  /\ codes' \in Seq(Code) /\ DOMAIN codes' = DOMAIN codes /\ Grows
         /\ codes'[i] = e /\ \A j \in DOMAIN codes : j # i => codes'[j] = codes[j]
<1>1. /\ codes' \in Seq(Code) /\ DOMAIN codes' = DOMAIN codes
      /\ codes'[i] = e /\ \A j \in DOMAIN codes : j # i => codes'[j] = codes[j]
  BY DEF AccountsTypeOK
<1> QED
  BY <1>1 DEF Grows

\* A request has read code i, and goes to step.
LEMMA ReadKeeps ==
  ASSUME AccountsInv, NEW s \in Slots, NEW i \in Unused(CodeAddress(request[s])),
         NEW step \in {"exhaust", "wrong", AfterMatch(request[s].op)},
         request[s].pc = "code", ~Spent(i) \/ step = "exhaust",
         request' = [request EXCEPT ![s].row = i, ![s].pc = step],
         UNCHANGED <<users, codes, begun>>
  PROVE  AccountsInv'
<1> DEFINE r == request[s]
<1>1. r \in Request /\ Fits(r) /\ AccountsTypeOK /\ CountsFit
  BY DEF AccountsInv, AccountsTypeOK, RequestsFit
<1>2. PICK q : q = [r EXCEPT !.row = i, !.pc = step]
  OBVIOUS
<1>3. /\ i \in DOMAIN codes /\ i \in Nat /\ codes[i] \in Code
      /\ codes[i].addr = CodeAddress(r) /\ ~codes[i].used
  BY <1>1, RowsAre DEF Unused
<1>4. step \in {"exhaust", "wrong", "mark", "find"}
  BY DEF AfterMatch
<1>5. q \in Request /\ q.pc = step /\ q.row = i /\ q.op = r.op
  BY <1>1, <1>2, <1>3, <1>4 DEF Request, Steps
<1>6. step = "find" => r.op \in {"verifyForgot", "reset"} /\ codes[i].addr = r.phone
  BY <1>1, <1>3 DEF AfterMatch, Fits, CodeAddress
<1>7. step = "mark" => r.op \in {"register", "verifyEmail"}
  BY DEF AfterMatch
<1>8. Fits(q)
  BY <1>1, <1>2, <1>3, <1>4, <1>6, <1>7 DEF Fits, Request
<1>9. request' = [request EXCEPT ![s] = q]
  BY <1>1, <1>2 DEF AccountsTypeOK
<1>10. Grows /\ Fits(q)'
  BY <1>8, SameGrows, FitsStays
<1>11. request' \in [Slots -> Request] /\ RequestsFit'
  BY <1>5, <1>9, <1>10, OneMoves DEF AccountsInv
<1>12. request'[s] = q /\ \A x \in Slots : x # s => request'[x] = request[x]
  BY <1>1, <1>9 DEF AccountsTypeOK
<1>13. ASSUME NEW a \in Addresses
       PROVE  Cardinality(Unused(a)') + Cardinality(Storing(a)') <= Cardinality(Slots)
  <2>1. Unused(a)' \subseteq Unused(a)
    BY DEF Unused
  <2>2. Storing(a)' \subseteq Storing(a)
    BY <1>4, <1>5, <1>12 DEF Storing, IsNextAddress
  <2> QED
    BY <1>1, <2>1, <2>2, OpenStays
<1>14. ASSUME NEW j \in DOMAIN codes'
       PROVE  codes'[j].attempts + Cardinality(Guessing(j)')
                <= MaxAttempts - 1 + Cardinality(Slots)
  <2>1. CASE j = i /\ step = "wrong"
    <3>1. codes[i].attempts <= MaxAttempts - 1
      BY <1>3, <2>1, AccountsAssumption DEF Spent, Code
    <3>2. Cardinality(Guessing(j)') <= Cardinality(Slots) /\ Cardinality(Guessing(j)') \in Nat
          /\ Cardinality(Slots) \in Nat
      BY SetsOfSlots, SlotsCount
    <3> QED
      BY <1>3, <2>1, <3>1, <3>2, AccountsAssumption DEF Code
  <2>2. CASE ~(j = i /\ step = "wrong")
    <3>1. Guessing(j)' \subseteq Guessing(j)
      BY <1>5, <1>12, <2>2 DEF Guessing
    <3> QED
      BY <1>1, <3>1, GuessesStay
  <2> QED
    BY <2>1, <2>2
<1>15. ASSUME NEW j \in DOMAIN codes'
       PROVE  /\ ~codes'[j].used => codes'[j].uses = 0
              /\ codes'[j].uses + Cardinality(Holding(j)') <= Cardinality(Slots)
  <2>1. CASE j = i
    <3>1. codes[i].uses = 0
      BY <1>1, <1>3 DEF CountsFit
    <3>2. Cardinality(Holding(j)') <= Cardinality(Slots) /\ Cardinality(Holding(j)') \in Nat
      BY SetsOfSlots, SlotsCount
    <3> QED
      BY <2>1, <3>1, <3>2
  <2>2. CASE j # i
    <3>1. Holding(j)' \subseteq Holding(j)
      BY <1>5, <1>12, <2>2 DEF Holding
    <3> QED
      BY <1>1, <3>1, UsesStay
  <2> QED
    BY <2>1, <2>2
<1>16. CountsFit'
  BY <1>13, <1>14, <1>15, CountsAfter
<1> QED
  BY <1>1, <1>11, <1>16 DEF AccountsInv, AccountsTypeOK

LEMMA ReadCodeKeeps == ASSUME AccountsInv, NEW s \in Slots, ReadCode(s) PROVE AccountsInv'
<1>1. ASSUME Answer(s), UNCHANGED <<users, codes>> PROVE AccountsInv'
  BY <1>1, AnswerOnly
<1>2. ASSUME NEW i \in Unused(CodeAddress(request[s])), request[s].pc = "code",
             request' = [request EXCEPT ![s].row = i, ![s].pc =
                          IF Spent(i) THEN "exhaust"
                          ELSE IF codes[i].code # request[s].code THEN "wrong"
                          ELSE AfterMatch(request[s].op)],
             UNCHANGED <<users, codes, begun>>
      PROVE  AccountsInv'
  BY <1>2, ReadKeeps
<1> QED
  BY <1>1, <1>2 DEF ReadCode

\* One wrong guess is counted.
LEMMA CountAttemptKeeps == ASSUME AccountsInv, NEW s \in Slots, CountAttempt(s) PROVE AccountsInv'
<1> DEFINE i == request[s].row
<1>1. request[s] \in Request /\ Fits(request[s]) /\ AccountsTypeOK /\ CountsFit
  BY DEF AccountsInv, AccountsTypeOK, RequestsFit
<1>2. PICK k : k = i
  OBVIOUS
<1>3. k \in DOMAIN codes /\ codes[k] \in Code
  BY <1>1, <1>2, RowsAre DEF CountAttempt, Fits
<1>4. PICK e : e = [codes[k] EXCEPT !.attempts = @ + 1]
  OBVIOUS
<1>5. PICK q : q = [request[s] EXCEPT !.pc = "recount"]
  OBVIOUS
<1>6. /\ e \in Code /\ e.addr = codes[k].addr /\ e.used = codes[k].used
      /\ e.uses = codes[k].uses /\ e.attempts = codes[k].attempts + 1
  BY <1>3, <1>4 DEF Code
<1>7. /\ codes' = [codes EXCEPT ![k] = e] /\ UNCHANGED <<users, begun>>
      /\ request' = [request EXCEPT ![s] = q] /\ request[s].pc = "wrong"
  BY <1>2, <1>4, <1>5 DEF CountAttempt, GoTo
<1>8. q \in Request /\ Fits(q) /\ q.pc = "recount"
  BY <1>1, <1>2, <1>3, <1>5, <1>7 DEF Request, Fits, Steps
<1>9. /\ codes' \in Seq(Code) /\ DOMAIN codes' = DOMAIN codes /\ Grows
      /\ codes'[k] = e /\ \A j \in DOMAIN codes : j # k => codes'[j] = codes[j]
  BY <1>1, <1>3, <1>6, <1>7, CodeChanges
<1>10. request' \in [Slots -> Request] /\ RequestsFit'
  BY <1>7, <1>8, <1>9, FitsStays, OneMoves DEF AccountsInv
<1>11. request'[s] = q /\ \A x \in Slots : x # s => request'[x] = request[x]
  BY <1>1, <1>7 DEF AccountsTypeOK
<1>12. ASSUME NEW a \in Addresses
       PROVE  Cardinality(Unused(a)') + Cardinality(Storing(a)') <= Cardinality(Slots)
  <2>1. Unused(a)' \subseteq Unused(a)
    BY <1>6, <1>9 DEF Unused
  <2>2. Storing(a)' \subseteq Storing(a)
    BY <1>8, <1>11 DEF Storing, IsNextAddress
  <2> QED
    BY <1>1, <2>1, <2>2, OpenStays
<1>13. ASSUME NEW j \in DOMAIN codes'
       PROVE  codes'[j].attempts + Cardinality(Guessing(j)')
                <= MaxAttempts - 1 + Cardinality(Slots)
  <2>1. CASE j = k
    <3>1. s \in Guessing(k) /\ Guessing(j)' \subseteq Guessing(k) \ {s}
      BY <1>2, <1>7, <1>8, <1>11, <2>1 DEF Guessing
    <3>2. Cardinality(Guessing(j)') + 1 <= Cardinality(Guessing(k))
          /\ Cardinality(Guessing(j)') \in Nat /\ Cardinality(Guessing(k)) \in Nat
      BY <3>1, SetsOfSlots, SlotLeaves
    <3>3. codes[k].attempts + Cardinality(Guessing(k)) <= MaxAttempts - 1 + Cardinality(Slots)
          /\ Cardinality(Slots) \in Nat
      BY <1>1, <1>3, SlotsCount DEF CountsFit
    <3>4. codes'[j].attempts = codes[k].attempts + 1 /\ codes[k].attempts \in Nat
      BY <1>3, <1>6, <1>9, <2>1 DEF Code
    <3> QED
      BY <3>2, <3>3, <3>4, AccountsAssumption
  <2>2. CASE j # k
    <3>1. Guessing(j)' \subseteq Guessing(j) /\ codes'[j] = codes[j]
      BY <1>8, <1>9, <1>11, <2>2 DEF Guessing
    <3> QED
      BY <1>1, <1>9, <3>1, GuessesStay
  <2> QED
    BY <2>1, <2>2
<1>14. ASSUME NEW j \in DOMAIN codes'
       PROVE  /\ ~codes'[j].used => codes'[j].uses = 0
              /\ codes'[j].uses + Cardinality(Holding(j)') <= Cardinality(Slots)
  <2>1. Holding(j)' \subseteq Holding(j)
    BY <1>8, <1>11 DEF Holding
  <2>2. codes'[j].uses = codes[j].uses /\ (codes[j].used => codes'[j].used)
    BY <1>6, <1>9
  <2> QED
    BY <1>1, <1>9, <2>1, <2>2, UsesStay
<1>15. CountsFit'
  BY <1>12, <1>13, <1>14, CountsAfter
<1> QED
  BY <1>1, <1>7, <1>9, <1>10, <1>15 DEF AccountsInv, AccountsTypeOK

\* A code changes in a way that passes no limit, and the request is answered.
LEMMA QuietCode ==
  ASSUME AccountsInv, UNCHANGED <<users, begun>>, NEW i \in DOMAIN codes, NEW e \in Code,
         codes' = [codes EXCEPT ![i] = e], e.addr = codes[i].addr,
         codes[i].used => e.used, e.uses = codes[i].uses, e.attempts = codes[i].attempts,
         request' = request \/ \E s \in Slots : request' = [request EXCEPT ![s] = Idle]
  PROVE  AccountsInv'
<1>1. AccountsTypeOK /\ CountsFit /\ RequestsFit /\ codes[i] \in Code
  BY RowsAre DEF AccountsInv
<1>2. /\ codes' \in Seq(Code) /\ DOMAIN codes' = DOMAIN codes /\ Grows
      /\ codes'[i] = e /\ \A j \in DOMAIN codes : j # i => codes'[j] = codes[j]
  BY <1>1, CodeChanges
<1>3. request' \in [Slots -> Request] /\ RequestsFit'
  <2>1. CASE request' = request
    <3>1. \A x \in Slots : Fits(request[x])
      BY <1>1 DEF RequestsFit
    <3>2. ASSUME NEW x \in Slots PROVE Fits(request[x])'
      BY <1>2, <2>1, <3>1, FitsStays DEF Fits
    <3> QED
      BY <1>1, <2>1, <3>2 DEF RequestsFit, AccountsTypeOK
  <2>2. ASSUME NEW s \in Slots, request' = [request EXCEPT ![s] = Idle]
        PROVE  request' \in [Slots -> Request] /\ RequestsFit'
    BY <1>1, <1>2, <2>2, IdleFits, OneMoves
  <2> QED
    BY <2>1, <2>2
<1>4. \A x \in Slots : request'[x] = request[x] \/ request'[x].pc = "idle"
  BY <1>1, IdleFits DEF AccountsTypeOK
<1>5. \A j \in DOMAIN codes :
        /\ codes'[j].addr = codes[j].addr
        /\ codes'[j].attempts = codes[j].attempts
        /\ codes'[j].uses = codes[j].uses
        /\ codes[j].used => codes'[j].used
  BY <1>2
<1>6. \A j \in DOMAIN codes : Guessing(j)' \subseteq Guessing(j) /\ Holding(j)' \subseteq Holding(j)
  BY <1>4 DEF Guessing, Holding
<1>7. \A a \in Addresses : Storing(a)' \subseteq Storing(a)
  BY <1>4 DEF Storing, IsNextAddress
<1>8. CountsFit'
  BY <1>1, <1>2, <1>5, <1>6, <1>7, QuietCounts
<1> QED
  BY <1>1, <1>2, <1>3, <1>8 DEF AccountsInv, AccountsTypeOK

LEMMA CloseCodeKeeps == ASSUME AccountsInv, NEW s \in Slots, CloseCode(s) PROVE AccountsInv'
<1>1. PICK i : i = request[s].row
  OBVIOUS
<1>2. Fits(request[s]) /\ AccountsTypeOK
  BY DEF AccountsInv, RequestsFit
<1>3. i \in DOMAIN codes /\ codes[i] \in Code
  BY <1>1, <1>2, RowsAre DEF CloseCode, Fits
<1>4. PICK e : e = [codes[i] EXCEPT !.used = TRUE]
  OBVIOUS
<1>5. /\ e \in Code /\ e.addr = codes[i].addr /\ e.used
      /\ e.uses = codes[i].uses /\ e.attempts = codes[i].attempts
  BY <1>3, <1>4 DEF Code
<1>6. /\ codes' = [codes EXCEPT ![i] = e] /\ UNCHANGED <<users, begun>>
      /\ request' = [request EXCEPT ![s] = Idle]
  BY <1>1, <1>4 DEF CloseCode, Answer
<1> QED
  BY <1>3, <1>5, <1>6, QuietCode

LEMMA ExpireCodeKeeps ==
  ASSUME AccountsInv, NEW i \in DOMAIN codes, ExpireCode(i) PROVE AccountsInv'
<1>1. codes[i] \in Code
  BY RowsAre DEF AccountsInv
<1>2. PICK e : e = [codes[i] EXCEPT !.expired = TRUE]
  OBVIOUS
<1>3. /\ e \in Code /\ e.addr = codes[i].addr /\ e.used = codes[i].used
      /\ e.uses = codes[i].uses /\ e.attempts = codes[i].attempts
  BY <1>1, <1>2 DEF Code
<1>4. codes' = [codes EXCEPT ![i] = e] /\ UNCHANGED <<users, begun, request>>
  BY <1>2 DEF ExpireCode
<1> QED
  BY <1>3, <1>4, QuietCode

\* A code is marked used by a request that held it.
LEMMA MarkKeeps == ASSUME AccountsInv, NEW s \in Slots, MarkOtpCodeUsed(s) PROVE AccountsInv'
<1>1. request[s] \in Request /\ Fits(request[s]) /\ AccountsTypeOK /\ CountsFit
  BY DEF AccountsInv, AccountsTypeOK, RequestsFit
<1>2. PICK k : k = request[s].row
  OBVIOUS
<1>3. k \in DOMAIN codes /\ codes[k] \in Code /\ request[s].pc = "mark"
  BY <1>1, <1>2, RowsAre DEF MarkOtpCodeUsed, Fits
<1>4. PICK e : e = [codes[k] EXCEPT !.used = TRUE, !.uses = @ + 1]
  OBVIOUS
<1>5. /\ e \in Code /\ e.addr = codes[k].addr /\ e.used /\ e.uses > 0
      /\ e.uses = codes[k].uses + 1 /\ e.attempts = codes[k].attempts
  <2>1. codes[k].uses \in Nat /\ codes[k].uses + 1 \in Nat
    BY <1>3 DEF Code
  <2>2. PICK n \in Nat : n = codes[k].uses + 1
    BY <2>1
  <2>3. e = [codes[k] EXCEPT !.used = TRUE, !.uses = n]
    BY <1>4, <2>2
  <2>4. e \in Code /\ e.addr = codes[k].addr /\ e.used = TRUE
        /\ e.uses = n /\ e.attempts = codes[k].attempts
    BY <1>3, <2>3 DEF Code
  <2> QED
    BY <2>1, <2>2, <2>4
<1>6. codes' = [codes EXCEPT ![k] = e] /\ UNCHANGED <<users, begun>>
  BY <1>2, <1>3, <1>4 DEF MarkOtpCodeUsed, GoTo, Answer
<1>7. /\ codes' \in Seq(Code) /\ DOMAIN codes' = DOMAIN codes /\ Grows
      /\ codes'[k] = e /\ \A j \in DOMAIN codes : j # k => codes'[j] = codes[j]
  BY <1>1, <1>3, <1>5, <1>6, CodeChanges
<1>8. PICK q \in Request : /\ request' = [request EXCEPT ![s] = q] /\ Fits(q)'
                           /\ q.pc \in {"email", "password", "idle"}
  <2>1. CASE request[s].op = "register"
    <3>1. PICK q : q = [request[s] EXCEPT !.pc = "email"]
      OBVIOUS
    <3>2. q \in Request /\ Fits(q) /\ q.pc = "email"
      BY <1>1, <1>3, <2>1, <3>1 DEF Request, Fits, Steps
    <3>3. request' = [request EXCEPT ![s] = q]
      BY <2>1, <3>1 DEF MarkOtpCodeUsed, GoTo
    <3> QED
      BY <1>7, <3>2, <3>3, FitsStays
  <2>2. CASE request[s].op = "reset"
    <3>1. PICK q : q = [request[s] EXCEPT !.pc = "password"]
      OBVIOUS
    <3>2. /\ q \in Request /\ q.pc = "password" /\ q.op = "reset" /\ q.row = k
          /\ q.pass \in Passwords /\ q.todo \subseteq {q.email, q.phone}
          /\ q.user \in DOMAIN users /\ codes[k].addr = q.phone
      BY <1>1, <1>2, <1>3, <2>2, <3>1 DEF Request, Fits, Steps
    <3>3. codes'[k].addr = q.phone /\ codes'[k].used /\ codes'[k].uses > 0 /\ k \in DOMAIN codes'
      BY <1>3, <1>5, <1>7, <3>2
    <3>4. Fits(q)'
      BY <1>6, <3>2, <3>3 DEF Fits
    <3>5. request' = [request EXCEPT ![s] = q]
      BY <2>2, <3>1 DEF MarkOtpCodeUsed, GoTo
    <3> QED
      BY <3>2, <3>4, <3>5
  <2>3. CASE request[s].op \notin {"register", "reset"}
    BY <2>3, IdleFits DEF MarkOtpCodeUsed, Answer
  <2> QED
    BY <2>1, <2>2, <2>3
<1>9. request' \in [Slots -> Request] /\ RequestsFit'
  BY <1>7, <1>8, OneMoves DEF AccountsInv
<1>10. request'[s] = q /\ \A x \in Slots : x # s => request'[x] = request[x]
  BY <1>1, <1>8 DEF AccountsTypeOK
<1>11. ASSUME NEW a \in Addresses
       PROVE  Cardinality(Unused(a)') + Cardinality(Storing(a)') <= Cardinality(Slots)
  <2>1. Unused(a)' \subseteq Unused(a)
    BY <1>5, <1>7 DEF Unused
  <2>2. Storing(a)' \subseteq Storing(a)
    BY <1>8, <1>10 DEF Storing, IsNextAddress
  <2> QED
    BY <1>1, <2>1, <2>2, OpenStays
<1>12. ASSUME NEW j \in DOMAIN codes'
       PROVE  codes'[j].attempts + Cardinality(Guessing(j)')
                <= MaxAttempts - 1 + Cardinality(Slots)
  <2>1. Guessing(j)' \subseteq Guessing(j)
    BY <1>8, <1>10 DEF Guessing
  <2>2. codes'[j].attempts = codes[j].attempts
    BY <1>5, <1>7
  <2> QED
    BY <1>1, <1>7, <2>1, <2>2, GuessesStay
<1>13. ASSUME NEW j \in DOMAIN codes'
       PROVE  /\ ~codes'[j].used => codes'[j].uses = 0
              /\ codes'[j].uses + Cardinality(Holding(j)') <= Cardinality(Slots)
  <2>1. CASE j = k
    <3>1. s \in Holding(k) /\ Holding(j)' \subseteq Holding(k) \ {s}
      BY <1>2, <1>3, <1>8, <1>10, <2>1 DEF Holding
    <3>2. Cardinality(Holding(j)') + 1 <= Cardinality(Holding(k))
          /\ Cardinality(Holding(j)') \in Nat /\ Cardinality(Holding(k)) \in Nat
      BY <3>1, SetsOfSlots, SlotLeaves
    <3>3. codes[k].uses + Cardinality(Holding(k)) <= Cardinality(Slots)
          /\ Cardinality(Slots) \in Nat
      BY <1>1, <1>3, SlotsCount DEF CountsFit
    <3>4. codes'[j].uses = codes[k].uses + 1 /\ codes[k].uses \in Nat /\ codes'[j].used
      BY <1>3, <1>5, <1>7, <2>1 DEF Code
    <3>5. codes'[j].uses + Cardinality(Holding(j)') <= Cardinality(Slots)
      BY <3>2, <3>3, <3>4
    <3> QED
      BY <3>4, <3>5
  <2>2. CASE j # k
    <3>1. Holding(j)' \subseteq Holding(j) /\ codes'[j] = codes[j]
      BY <1>7, <1>8, <1>10, <2>2 DEF Holding
    <3> QED
      BY <1>1, <1>7, <3>1, UsesStay
  <2> QED
    BY <2>1, <2>2
<1>14. CountsFit'
  BY <1>11, <1>12, <1>13, CountsAfter
<1> QED
  BY <1>1, <1>6, <1>7, <1>9, <1>14 DEF AccountsInv, AccountsTypeOK

\* A request stores the codes of its addresses one at a time.
LEMMA OneNextAddress ==
  ASSUME NEW r \in Request, r.todo \subseteq {r.email, r.phone},
         NEW a \in r.todo, a \in Emails \/ r.todo \subseteq Phones,
         NEW b \in r.todo, b \in Emails \/ r.todo \subseteq Phones
  PROVE  a = b
BY AccountsAssumption DEF Request

LEMMA RetireKeeps == ASSUME AccountsInv, NEW s \in Slots, RetireCodes(s) PROVE AccountsInv'
<1>1. request[s] \in Request /\ Fits(request[s]) /\ AccountsTypeOK /\ CountsFit
  BY DEF AccountsInv, AccountsTypeOK, RequestsFit
<1>2. PICK a \in request[s].todo :
        /\ IsNextAddress(s, a)
        /\ codes' = [i \in DOMAIN codes |->
             [codes[i] EXCEPT !.used = @ \/ codes[i].addr = a]]
  BY DEF RetireCodes
<1>3. PICK q : q = [request[s] EXCEPT !.pc = "store"]
  OBVIOUS
<1>4. /\ request' = [request EXCEPT ![s] = q] /\ UNCHANGED <<users, begun>>
      /\ request[s].pc = "retire"
  BY <1>3 DEF RetireCodes, GoTo
<1>5. q \in Request /\ q.pc = "store" /\ q.todo = request[s].todo /\ Fits(q)
  BY <1>1, <1>3, <1>4 DEF Request, Fits, Steps
<1>6. ASSUME NEW i \in DOMAIN codes
      PROVE  /\ codes'[i] \in Code /\ codes'[i].addr = codes[i].addr
             /\ codes'[i].uses = codes[i].uses /\ codes'[i].attempts = codes[i].attempts
             /\ codes'[i].used <=> codes[i].used \/ codes[i].addr = a
  <2>1. codes[i] \in Code
    BY <1>1, RowsAre
  <2>2. PICK b \in BOOLEAN : b <=> codes[i].used \/ codes[i].addr = a
    BY Zenon
  <2>3. codes'[i] = [codes[i] EXCEPT !.used = b]
    BY <1>2, <2>1, <2>2 DEF Code
  <2> QED
    BY <2>1, <2>2, <2>3 DEF Code
<1>7. codes' \in Seq(Code) /\ DOMAIN codes' = DOMAIN codes
  <2>1. codes' \in [DOMAIN codes -> Code]
    BY <1>2, <1>6
  <2> QED
    BY <1>1, <2>1 DEF AccountsTypeOK
<1>8. Grows
  BY <1>4, <1>6, <1>7 DEF Grows
<1>9. request' \in [Slots -> Request] /\ RequestsFit'
  BY <1>4, <1>5, <1>8, FitsStays, OneMoves DEF AccountsInv
<1>10. request'[s] = q /\ \A x \in Slots : x # s => request'[x] = request[x]
  BY <1>1, <1>4 DEF AccountsTypeOK
<1>11. ASSUME NEW b \in Addresses
       PROVE  Cardinality(Unused(b)') + Cardinality(Storing(b)') <= Cardinality(Slots)
  <2>1. CASE b = a
    <3>1. Unused(b)' = {}
      BY <1>6, <1>7, <2>1 DEF Unused
    <3>2. Cardinality(Unused(b)') = 0
      BY <3>1, FS_EmptySet
    <3>3. Cardinality(Storing(b)') <= Cardinality(Slots) /\ Cardinality(Storing(b)') \in Nat
      BY SetsOfSlots, SlotsCount
    <3> QED
      BY <3>2, <3>3
  <2>2. CASE b # a
    <3>1. Unused(b)' \subseteq Unused(b)
      BY <1>6, <1>7 DEF Unused
    <3>2. ~(b \in q.todo /\ (b \in Emails \/ q.todo \subseteq Phones))
      BY <1>1, <1>2, <1>5, <2>2, OneNextAddress DEF IsNextAddress, Fits
    <3>3. Storing(b)' \subseteq Storing(b)
      BY <1>10, <3>2 DEF Storing, IsNextAddress
    <3> QED
      BY <1>1, <3>1, <3>3, OpenStays
  <2> QED
    BY <2>1, <2>2
<1>12. \A j \in DOMAIN codes : Guessing(j)' \subseteq Guessing(j) /\ Holding(j)' \subseteq Holding(j)
  BY <1>5, <1>10 DEF Guessing, Holding
<1>13. \A j \in DOMAIN codes' :
         codes'[j].attempts + Cardinality(Guessing(j)') <= MaxAttempts - 1 + Cardinality(Slots)
  BY <1>1, <1>6, <1>7, <1>12, GuessesStay
<1>14. \A j \in DOMAIN codes' :
         /\ ~codes'[j].used => codes'[j].uses = 0
         /\ codes'[j].uses + Cardinality(Holding(j)') <= Cardinality(Slots)
  BY <1>1, <1>6, <1>7, <1>12, UsesStay
<1>15. CountsFit'
  BY <1>11, <1>13, <1>14, CountsAfter
<1> QED
  BY <1>1, <1>4, <1>7, <1>9, <1>15 DEF AccountsInv, AccountsTypeOK

LEMMA StoreKeeps == ASSUME AccountsInv, NEW s \in Slots, StoreCode(s) PROVE AccountsInv'
<1> DEFINE n == Len(codes) + 1
<1>1. request[s] \in Request /\ Fits(request[s]) /\ AccountsTypeOK /\ CountsFit
  BY DEF AccountsInv, AccountsTypeOK, RequestsFit
<1>2. PICK a \in request[s].todo, c \in Codes :
        /\ IsNextAddress(s, a)
        /\ codes' = Append(codes, [addr |-> a, code |-> c, used |-> FALSE,
                                   expired |-> FALSE, attempts |-> 0, uses |-> 0])
        /\ IF request[s].todo = {a} THEN Answer(s)
           ELSE /\ request' = [request EXCEPT ![s].pc = "retire", ![s].todo = @ \ {a}]
                /\ UNCHANGED begun
  BY DEF StoreCode
<1>3. PICK e : e = [addr |-> a, code |-> c, used |-> FALSE,
                    expired |-> FALSE, attempts |-> 0, uses |-> 0]
  OBVIOUS
<1>4. a \in Addresses /\ e \in Code /\ e.addr = a /\ e.attempts = 0 /\ e.uses = 0
  BY <1>1, <1>3 DEF Request, Code
<1>5. codes' = Append(codes, e) /\ UNCHANGED users /\ request[s].pc = "store"
  BY <1>2, <1>3 DEF StoreCode
<1>6. /\ codes' \in Seq(Code) /\ DOMAIN codes' = DOMAIN codes \cup {n}
      /\ codes'[n] = e /\ \A j \in DOMAIN codes : codes'[j] = codes[j]
      /\ n \notin DOMAIN codes
  <2>1. codes \in Seq(Code) /\ Len(codes) \in Nat /\ DOMAIN codes = 1..Len(codes)
    BY <1>1, RowsAre DEF AccountsTypeOK
  <2>2. codes' \in Seq(Code) /\ Len(codes') = n /\ DOMAIN codes' = 1..n
    BY <1>4, <1>5, <2>1
  <2>3. codes'[n] = e /\ \A j \in 1..Len(codes) : codes'[j] = codes[j]
    BY <1>4, <1>5, <2>1
  <2> QED
    BY <2>1, <2>2, <2>3
<1>7. PICK m : m = n
  OBVIOUS
<1> HIDE DEF n
<1>8. Grows
  BY <1>5, <1>6 DEF Grows
<1>9. PICK q \in Request : /\ request' = [request EXCEPT ![s] = q] /\ Fits(q)
                           /\ q.pc \in {"idle", "retire"}
  <2>1. CASE request[s].todo = {a}
    BY <1>2, <2>1, IdleFits DEF Answer
  <2>2. CASE request[s].todo # {a}
    <3>1. PICK q : q = [request[s] EXCEPT !.pc = "retire", !.todo = @ \ {a}]
      OBVIOUS
    <3>2. q \in Request /\ Fits(q) /\ q.pc = "retire"
      BY <1>1, <1>5, <3>1 DEF Request, Fits, Steps
    <3>3. request' = [request EXCEPT ![s] = q]
      BY <1>2, <2>2, <3>1
    <3> QED
      BY <3>2, <3>3
  <2> QED
    BY <2>1, <2>2
<1>10. request' \in [Slots -> Request] /\ RequestsFit' /\ begun' = begun
  BY <1>2, <1>8, <1>9, FitsStays, OneMoves DEF AccountsInv, Answer
<1>11. request'[s] = q /\ \A x \in Slots : x # s => request'[x] = request[x]
  BY <1>1, <1>9 DEF AccountsTypeOK
<1>12. \A b : Storing(b)' \subseteq Storing(b) \ {s}
  BY <1>9, <1>11 DEF Storing, IsNextAddress
<1>13. ASSUME NEW b \in Addresses
       PROVE  Cardinality(Unused(b)') + Cardinality(Storing(b)') <= Cardinality(Slots)
  <2>1. CASE b = a
    <3>1. s \in Storing(a) /\ Storing(b)' \subseteq Storing(a) \ {s}
      BY <1>2, <1>5, <1>12, <2>1 DEF Storing
    <3>2. Cardinality(Storing(b)') + 1 <= Cardinality(Storing(a))
          /\ Cardinality(Storing(b)') \in Nat /\ Cardinality(Storing(a)) \in Nat
      BY <3>1, SetsOfSlots, SlotLeaves
    <3>3. Unused(b)' \subseteq Unused(a) \cup {m} /\ Unused(a) \subseteq DOMAIN codes
      BY <1>6, <1>7, <2>1 DEF Unused
    <3>4. IsFiniteSet(Unused(a)) /\ Cardinality(Unused(a)) \in Nat
      BY <1>1, <3>3, CodesCount
    <3>5. /\ IsFiniteSet(Unused(a) \cup {m})
          /\ Cardinality(Unused(a) \cup {m}) \in {Cardinality(Unused(a)), Cardinality(Unused(a)) + 1}
      BY <3>4, FS_AddElement
    <3>6. IsFiniteSet(Unused(b)') /\ Cardinality(Unused(b)') <= Cardinality(Unused(a) \cup {m})
      BY <3>3, <3>5, FS_Subset
    <3>7. Cardinality(Unused(b)') \in Nat
      BY <3>6, FS_CardinalityType
    <3>8. Cardinality(Unused(b)') <= Cardinality(Unused(a)) + 1
      BY <3>4, <3>5, <3>6, <3>7
    <3>9. /\ Cardinality(Unused(a)) + Cardinality(Storing(a)) <= Cardinality(Slots)
          /\ Cardinality(Slots) \in Nat
      BY <1>1, <1>4, SlotsCount DEF CountsFit
    <3> QED
      BY <3>2, <3>4, <3>7, <3>8, <3>9
  <2>2. CASE b # a
    <3>1. Unused(b)' \subseteq Unused(b)
      BY <1>4, <1>6, <2>2 DEF Unused
    <3> QED
      BY <1>1, <1>12, <3>1, OpenStays
  <2> QED
    BY <2>1, <2>2
<1>14. \A j : Guessing(j)' \subseteq Guessing(j) /\ Holding(j)' \subseteq Holding(j)
  BY <1>9, <1>11 DEF Guessing, Holding
<1>15. ASSUME NEW j \in DOMAIN codes'
       PROVE  codes'[j].attempts + Cardinality(Guessing(j)')
                <= MaxAttempts - 1 + Cardinality(Slots)
  <2>1. CASE j = n
    <3>1. codes'[j].attempts = 0
      BY <1>4, <1>6, <2>1
    <3>2. Cardinality(Guessing(j)') <= Cardinality(Slots) /\ Cardinality(Guessing(j)') \in Nat
          /\ Cardinality(Slots) \in Nat
      BY SetsOfSlots, SlotsCount
    <3> QED
      BY <3>1, <3>2, AccountsAssumption
  <2>2. CASE j # n
    BY <1>1, <1>6, <1>14, <2>2, GuessesStay
  <2> QED
    BY <2>1, <2>2
<1>16. ASSUME NEW j \in DOMAIN codes'
       PROVE  /\ ~codes'[j].used => codes'[j].uses = 0
              /\ codes'[j].uses + Cardinality(Holding(j)') <= Cardinality(Slots)
  <2>1. CASE j = n
    <3>1. codes'[j].uses = 0
      BY <1>4, <1>6, <2>1
    <3>2. Cardinality(Holding(j)') <= Cardinality(Slots) /\ Cardinality(Holding(j)') \in Nat
          /\ Cardinality(Slots) \in Nat
      BY SetsOfSlots, SlotsCount
    <3> QED
      BY <3>1, <3>2
  <2>2. CASE j # n
    BY <1>1, <1>6, <1>14, <2>2, UsesStay
  <2> QED
    BY <2>1, <2>2
<1>17. CountsFit'
  BY <1>13, <1>15, <1>16, CountsAfter
<1> QED
  BY <1>1, <1>5, <1>6, <1>10, <1>17 DEF AccountsInv, AccountsTypeOK

-----------------------------------------------------------------------------
LEMMA AccountsInitInv == AccountsInit => AccountsInv
<1> SUFFICES ASSUME AccountsInit PROVE AccountsInv
  OBVIOUS
<1>1. AccountsTypeOK
  BY IdleFits, AccountsAssumption DEF AccountsInit, AccountsTypeOK
<1>2. RequestsFit
  BY IdleFits DEF AccountsInit, RequestsFit
<1>3. CountsFit
  <2>1. \A i \in DOMAIN codes : FALSE
    BY DEF AccountsInit
  <2>2. ASSUME NEW a \in Addresses
        PROVE  Cardinality(Unused(a)) + Cardinality(Storing(a)) <= Cardinality(Slots)
    <3>1. Unused(a) = {}
      BY <2>1 DEF Unused
    <3>2. Cardinality(Unused(a)) = 0
      BY <3>1, FS_EmptySet
    <3>3. Cardinality(Storing(a)) <= Cardinality(Slots) /\ Cardinality(Storing(a)) \in Nat
      BY SetsOfSlots, SlotsCount
    <3> QED
      BY <3>2, <3>3
  <2> QED
    BY <2>1, <2>2 DEF CountsFit
<1> QED
  BY <1>1, <1>2, <1>3 DEF AccountsInv

LEMMA AccountsNextInv == AccountsInv /\ [AccountsNext]_accountVars => AccountsInv'
<1> SUFFICES ASSUME AccountsInv, [AccountsNext]_accountVars PROVE AccountsInv'
  OBVIOUS
<1>1. ASSUME NEW s \in Slots, Statement(s) PROVE AccountsInv'
  BY <1>1, ReadCodeKeeps, CountAttemptKeeps, CloseCodeKeeps, MarkKeeps, RetireKeeps,
     StoreKeeps, UserStatementsKeep DEF Statement
<1>2. ASSUME NEW s \in Slots, Abandon(s) PROVE AccountsInv'
  BY <1>2, AnswerOnly DEF Abandon
<1>3. CASE UNCHANGED accountVars
  BY <1>3 DEF accountVars, AccountsInv, AccountsTypeOK, RequestsFit, Fits, CountsFit,
              Unused, Storing, IsNextAddress, Guessing, Holding
<1> QED
  BY <1>1, <1>2, <1>3, PublicKeeps, AdminKeeps, ExpireCodeKeeps DEF AccountsNext

LEMMA AccountsAlways == AccountsSpec => []AccountsInv
<1> QED
  BY AccountsInitInv, AccountsNextInv, PTL DEF AccountsSpec

\* The tables and the requests keep their types.
THEOREM AccountsTypeCorrect == AccountsSpec => []AccountsTypeOK
<1>1. AccountsInv => AccountsTypeOK
  BY DEF AccountsInv
<1> QED
  BY <1>1, AccountsAlways, PTL

LEMMA OpenCodesFit == AccountsInv => OpenCodesBounded
<1> SUFFICES ASSUME AccountsInv, NEW a \in Addresses
             PROVE  Cardinality(Unused(a)) <= Cardinality(Slots)
  BY DEF OpenCodesBounded
<1>1. Cardinality(Storing(a)) \in Nat /\ Cardinality(Slots) \in Nat
  BY SetsOfSlots, SlotsCount
<1>2. Cardinality(Unused(a)) \in Nat
  BY CodesCount DEF AccountsInv, Unused
<1> QED
  BY <1>1, <1>2 DEF AccountsInv, CountsFit

\* No address ever has more open codes than there are requests at once.
THEOREM OpenCodesStayBounded == AccountsSpec => []OpenCodesBounded
<1> QED
  BY OpenCodesFit, AccountsAlways, PTL

LEMMA GuessesFit == AccountsInv => GuessesBounded
<1> SUFFICES ASSUME AccountsInv, NEW i \in DOMAIN codes
             PROVE  codes[i].attempts <= MaxAttempts - 1 + Cardinality(Slots)
  BY DEF GuessesBounded
<1>1. Cardinality(Guessing(i)) \in Nat /\ Cardinality(Slots) \in Nat
  BY SetsOfSlots, SlotsCount
<1>2. codes[i].attempts \in Nat
  BY RowsAre DEF AccountsInv, Code
<1> QED
  BY <1>1, <1>2, AccountsAssumption DEF AccountsInv, CountsFit

\* Wrong guesses pass the limit by less than the requests at once.
THEOREM GuessesStayBounded == AccountsSpec => []GuessesBounded
<1> QED
  BY GuessesFit, AccountsAlways, PTL

LEMMA UsesFit == AccountsInv => UsesBounded
<1> SUFFICES ASSUME AccountsInv, NEW i \in DOMAIN codes
             PROVE  codes[i].uses <= Cardinality(Slots)
  BY DEF UsesBounded
<1>1. Cardinality(Holding(i)) \in Nat /\ Cardinality(Slots) \in Nat
  BY SetsOfSlots, SlotsCount
<1>2. codes[i].uses \in Nat
  BY RowsAre DEF AccountsInv, Code
<1> QED
  BY <1>1, <1>2 DEF AccountsInv, CountsFit

\* One code serves no more requests than there are at once.
THEOREM UsesStayBounded == AccountsSpec => []UsesBounded
<1> QED
  BY UsesFit, AccountsAlways, PTL

-----------------------------------------------------------------------------
(* Passwords.                                                              *)

\* Request r may go on to change the password of the account it has found.
Resetting(r) == r.pc \in {"mark", "password"} /\ r.op = "reset"

\* An account's phone is among those it has had.
HadItsPhone(u) == u.phone # None => u.phone \in u.had

\* The account a reset has found has had the phone it was found by.
PhonesFit ==
  /\ \A i \in DOMAIN users : HadItsPhone(users[i])
  /\ \A s \in Slots : Resetting(request[s]) =>
       request[s].phone \in users[request[s].user].had

\* No request of Accounts gives an account another phone or role, or brings a
\* deleted one back.
AccountKept(i) ==
  /\ i \in DOMAIN users' /\ users'[i].phone = users[i].phone
  /\ users'[i].had = users[i].had
  /\ users'[i].role = users[i].role /\ (users'[i].live => users[i].live)

LEMMA AccountsStay ==
  ASSUME AccountsInv, [AccountsNext]_accountVars, NEW i \in DOMAIN users
  PROVE  AccountKept(i)
<1>1. AccountsTypeOK /\ users \in Seq(User) /\ users[i] \in User
  BY RowsAre DEF AccountsInv, AccountsTypeOK
<1>2. ASSUME UNCHANGED users PROVE AccountKept(i)
  BY <1>2 DEF AccountKept
<1>3. ASSUME NEW s \in Slots, CreateUser(s) PROVE AccountKept(i)
  <2>1. CASE \E u : users' = Append(users, u)
    BY <1>1, <2>1, RowsAre DEF AccountKept
  <2> QED
    BY <1>2, <1>3, <2>1 DEF CreateUser
<1>4. ASSUME NEW s \in Slots, UpdatePasswordHash(s) \/ DeleteOwner(s) PROVE AccountKept(i)
  <2>1. PICK r : r = request[s]
    OBVIOUS
  <2>2. PICK u, v : /\ u = [users[r.user] EXCEPT !.pass = r.pass]
                    /\ v = [users[r.user] EXCEPT !.live = FALSE]
    OBVIOUS
  <2>3. PICK w \in {users[r.user], u, v} : users' = [users EXCEPT ![r.user] = w]
    BY <1>1, <1>4, <2>1, <2>2 DEF UpdatePasswordHash, DeleteOwner
  <2>4. DOMAIN users' = DOMAIN users
    BY <1>1, <2>3
  <2>5. CASE i = r.user
    <3>1. users'[i] = w
      BY <1>1, <2>3, <2>5
    <3>2. /\ w.phone = users[i].phone /\ w.role = users[i].role /\ w.had = users[i].had
          /\ (w.live => users[i].live)
      BY <1>1, <2>2, <2>3, <2>5 DEF User
    <3> QED
      BY <2>4, <3>1, <3>2 DEF AccountKept
  <2>6. CASE i # r.user
    BY <1>1, <2>3, <2>4, <2>6 DEF AccountKept
  <2> QED
    BY <2>5, <2>6
<1>5. ASSUME NEW s \in Slots, BeginPublic(s) \/ BeginAdmin(s) PROVE UNCHANGED users
  BY <1>5
  DEF BeginPublic, BeginAdmin, SignupRequestOtp, Register, SignupEmailVerifyOtp,
      ForgotPassword, VerifyForgotPasswordOtp, ResetPassword, AddAdmin,
      AddRestaurantOwner, DeleteRestaurantOwner, Begin
<1>6. ASSUME NEW s \in Slots, Statement(s)
      PROVE  \/ UNCHANGED users \/ CreateUser(s) \/ DeleteOwner(s) \/ UpdatePasswordHash(s)
  BY <1>6
  DEF Statement, ReadCode, CountAttempt, RecountAttempts, CloseCode, MarkOtpCodeUsed,
      RetireCodes, StoreCode, CheckEmail, CheckPhone, FindByPhone, CheckOwner
<1>7. ASSUME UNCHANGED accountVars PROVE UNCHANGED users
  BY <1>7 DEF accountVars
<1> QED
  BY <1>2, <1>3, <1>4, <1>5, <1>6, <1>7 DEF AccountsNext, Abandon, ExpireCode

\* A request comes to reset a password by finding its account.
LEMMA ResetsFind ==
  ASSUME AccountsInv, [AccountsNext]_accountVars, NEW s \in Slots,
         Resetting(request'[s])
  PROVE  \/ /\ Resetting(request[s])
            /\ request'[s].user = request[s].user
            /\ request'[s].phone = request[s].phone
         \/ /\ request'[s].user \in DOMAIN users
            /\ users[request'[s].user].phone = request'[s].phone
<1> DEFINE Kept == /\ Resetting(request[s])
                   /\ request'[s].user = request[s].user
                   /\ request'[s].phone = request[s].phone
           Found == /\ request'[s].user \in DOMAIN users
                    /\ users[request'[s].user].phone = request'[s].phone
<1>1. request \in [Slots -> Request] /\ request[s] \in Request /\ Fits(request[s])
  BY DEF AccountsInv, AccountsTypeOK, RequestsFit
<1>2. ASSUME request'[s] = request[s] PROVE Kept
  BY <1>2
<1>3. request'[s] # Idle
  BY DEF Resetting, Idle
<1>4. ASSUME NEW x \in Slots, x # s, NEW r, request' = [request EXCEPT ![x] = r]
      PROVE  Kept
  BY <1>1, <1>2, <1>4
<1>5. ASSUME NEW x \in Slots, Answer(x) PROVE Kept
  BY <1>1, <1>3, <1>4, <1>5 DEF Answer
<1>6. ASSUME NEW x \in Slots, NEW step, GoTo(x, step), step \notin {"mark", "password"}
      PROVE  Kept
  <2>1. PICK r : r = [request[x] EXCEPT !.pc = step]
    OBVIOUS
  <2>2. request' = [request EXCEPT ![x] = r]
    BY <1>1, <1>6, <2>1 DEF GoTo
  <2>3. x # s
    <3>1. ASSUME x = s PROVE FALSE
      <4>1. request'[s].pc = step
        BY <1>1, <2>1, <2>2, <3>1 DEF Request
      <4> QED
        BY <1>6, <4>1 DEF Resetting
    <3> QED
      BY <3>1
  <2> QED
    BY <1>4, <2>2, <2>3
<1>7. ASSUME NEW x \in Slots, NEW r, Begin(x, r), r.pc \notin {"mark", "password"}
      PROVE  Kept
  BY <1>1, <1>4, <1>7 DEF Begin, Resetting
<1>8. ASSUME NEW x \in Slots, BeginPublic(x) \/ BeginAdmin(x)
      PROVE  Kept
  <2>1. ASSUME NEW e, NEW p, NEW c, NEW w, NEW r,
               \/ SignupRequestOtp(x, e, p) \/ Register(x, e, p, c, w, r)
               \/ SignupEmailVerifyOtp(x, e, c) \/ ForgotPassword(x, p)
        PROVE  Kept
    BY <1>7, <2>1
    DEF SignupRequestOtp, Register, SignupEmailVerifyOtp, ForgotPassword, Idle
  <2>2. ASSUME NEW e, NEW p, NEW c, NEW w, NEW i,
               \/ VerifyForgotPasswordOtp(x, p, c) \/ ResetPassword(x, p, c, w)
               \/ AddAdmin(x, e, p, w) \/ AddRestaurantOwner(x, e, p, w)
               \/ DeleteRestaurantOwner(x, i)
        PROVE  Kept
    BY <1>7, <2>2
    DEF VerifyForgotPasswordOtp, ResetPassword, AddAdmin, AddRestaurantOwner,
        DeleteRestaurantOwner, Idle
  <2> HIDE DEF Kept
  <2> QED
    BY <1>8, <2>1, <2>2 DEF BeginPublic, BeginAdmin
<1>9. ASSUME NEW x \in Slots, ReadCode(x) PROVE Kept
  <2>1. CASE Answer(x)
    BY <1>5, <2>1
  <2>2. CASE \E i, step : /\ request' = [request EXCEPT ![x].row = i, ![x].pc = step]
                          /\ step \in {"exhaust", "wrong", AfterMatch(request[x].op)}
    <3>1. PICK i, step : /\ request' = [request EXCEPT ![x].row = i, ![x].pc = step]
                         /\ step \in {"exhaust", "wrong", AfterMatch(request[x].op)}
      BY <2>2
    <3>2. PICK r : r = [request[x] EXCEPT !.row = i, !.pc = step]
      OBVIOUS
    <3>3. request' = [request EXCEPT ![x] = r]
      BY <1>1, <3>1, <3>2
    <3>4. ASSUME x = s PROVE FALSE
      <4>1. request'[s].pc = step /\ request'[s].op = request[s].op
        BY <1>1, <3>2, <3>3, <3>4 DEF Request
      <4> QED
        BY <3>1, <3>4, <4>1 DEF Resetting, AfterMatch
    <3> QED
      BY <1>4, <3>3, <3>4
  <2> QED
    BY <1>9, <2>1, <2>2 DEF ReadCode
<1>10. ASSUME NEW x \in Slots, MarkOtpCodeUsed(x) PROVE Kept
  <2>1. ASSUME x = s, request[s].op = "reset", GoTo(s, "password") PROVE Kept
    <3>1. PICK r : r = [request[s] EXCEPT !.pc = "password"]
      OBVIOUS
    <3>2. request'[s] = r
      BY <1>1, <2>1, <3>1 DEF GoTo
    <3>3. r.user = request[s].user /\ r.phone = request[s].phone
      BY <1>1, <3>1 DEF Request
    <3>4. request[s].pc = "mark"
      BY <1>10, <2>1 DEF MarkOtpCodeUsed
    <3> QED
      BY <2>1, <3>2, <3>3, <3>4 DEF Resetting
  <2>2. ASSUME x # s, GoTo(x, "password") PROVE Kept
    BY <1>1, <1>2, <2>2 DEF GoTo
  <2> QED
    BY <1>5, <1>6, <1>10, <2>1, <2>2 DEF MarkOtpCodeUsed
<1>11. ASSUME NEW x \in Slots, FindByPhone(x) PROVE Kept \/ Found
  <2>1. ASSUME NEW i \in LiveUsers, users[i].phone = request[x].phone,
               request' = [request EXCEPT ![x].pc = "mark", ![x].user = i]
        PROVE  Kept \/ Found
    <3>1. CASE x = s
      <4>1. request'[s].user = i /\ request'[s].phone = request[s].phone
        BY <1>1, <2>1, <3>1 DEF Request
      <4> QED
        BY <2>1, <3>1, <4>1 DEF LiveUsers
    <3>2. CASE x # s
      BY <1>1, <1>2, <2>1, <3>2
    <3> QED
      BY <3>1, <3>2
  <2> QED
    BY <1>5, <1>6, <1>11, <2>1 DEF FindByPhone
<1>12. ASSUME NEW x \in Slots, StoreCode(x) PROVE Kept
  <2>1. ASSUME NEW a, request' = [request EXCEPT ![x].pc = "retire", ![x].todo = @ \ {a}]
        PROVE  Kept
    <3>1. CASE x = s
      <4>1. request'[s].pc = "retire"
        BY <1>1, <2>1, <3>1 DEF Request
      <4> QED
        BY <4>1 DEF Resetting
    <3>2. CASE x # s
      BY <1>1, <1>2, <2>1, <3>2
    <3> QED
      BY <3>1, <3>2
  <2> QED
    BY <1>5, <1>12, <2>1 DEF StoreCode
<1>13. ASSUME NEW x \in Slots,
              \/ CountAttempt(x) \/ RecountAttempts(x) \/ CloseCode(x) \/ RetireCodes(x)
              \/ CheckEmail(x) \/ CheckPhone(x) \/ CreateUser(x)
              \/ UpdatePasswordHash(x) \/ CheckOwner(x) \/ DeleteOwner(x) \/ Abandon(x)
       PROVE  Kept
  <2>1. \/ Answer(x)
        \/ \E step \in {"recount", "exhaust", "store", "phone", "insert", "retire", "delete"} :
             GoTo(x, step)
    BY <1>13
    DEF CountAttempt, RecountAttempts, CloseCode, RetireCodes, CheckEmail, CheckPhone,
        CreateUser, UpdatePasswordHash, CheckOwner, DeleteOwner, Abandon
  <2> QED
    BY <1>5, <1>6, <2>1
<1>14. ASSUME UNCHANGED request PROVE Kept
  BY <1>2, <1>14
<1> HIDE DEF Kept, Found
<1>15. Kept \/ Found
  BY <1>8, <1>9, <1>10, <1>11, <1>12, <1>13, <1>14
  DEF AccountsNext, Statement, ExpireCode, accountVars
<1> QED
  BY <1>15 DEF Kept, Found

\* The phone of a new account is the first it has had.
LEMMA NewAccounts ==
  ASSUME AccountsInv, [AccountsNext]_accountVars, NEW i \in DOMAIN users', i \notin DOMAIN users
  PROVE  HadItsPhone(users'[i])
<1>1. users \in Seq(User) /\ Len(users) \in Nat /\ DOMAIN users = 1..Len(users)
  BY RowsAre DEF AccountsInv, AccountsTypeOK
<1>2. PICK s \in Slots : \E e, p, w, q : users' = Append(users, UserRow(e, p, w, q))
  <2>1. \/ UNCHANGED users
        \/ \E s \in Slots : CreateUser(s) \/ DeleteOwner(s) \/ UpdatePasswordHash(s)
    <3>1. ASSUME NEW s \in Slots, BeginPublic(s) \/ BeginAdmin(s) PROVE UNCHANGED users
      BY <3>1
      DEF BeginPublic, BeginAdmin, SignupRequestOtp, Register, SignupEmailVerifyOtp,
          ForgotPassword, VerifyForgotPasswordOtp, ResetPassword, AddAdmin,
          AddRestaurantOwner, DeleteRestaurantOwner, Begin
    <3>2. ASSUME NEW s \in Slots, Statement(s)
          PROVE  \/ UNCHANGED users \/ CreateUser(s) \/ DeleteOwner(s) \/ UpdatePasswordHash(s)
      BY <3>2
      DEF Statement, ReadCode, CountAttempt, RecountAttempts, CloseCode, MarkOtpCodeUsed,
          RetireCodes, StoreCode, CheckEmail, CheckPhone, FindByPhone, CheckOwner
    <3> QED
      BY <3>1, <3>2 DEF AccountsNext, Abandon, ExpireCode, accountVars
  <2>2. ASSUME NEW s \in Slots, DeleteOwner(s) \/ UpdatePasswordHash(s)
        PROVE  DOMAIN users' = DOMAIN users
    BY <1>1, <2>2 DEF DeleteOwner, UpdatePasswordHash
  <2> QED
    BY <2>1, <2>2 DEF CreateUser
<1>3. PICK e, p, w, q : users' = Append(users, UserRow(e, p, w, q))
  BY <1>2
<1>4. users'[i] = UserRow(e, p, w, q)
  BY <1>1, <1>3
<1> QED
  BY <1>4 DEF UserRow, HadItsPhone

LEMMA PhonesStayFit ==
  AccountsInv /\ PhonesFit /\ [AccountsNext]_accountVars => PhonesFit'
<1> SUFFICES ASSUME AccountsInv, PhonesFit, [AccountsNext]_accountVars PROVE PhonesFit'
  OBVIOUS
<1>1. ASSUME NEW i \in DOMAIN users' PROVE HadItsPhone(users'[i])
  <2>1. CASE i \in DOMAIN users
    BY <2>1, AccountsStay DEF PhonesFit, HadItsPhone, AccountKept
  <2> QED
    BY <2>1, NewAccounts
<1>2. ASSUME NEW s \in Slots, Resetting(request'[s])
      PROVE  request'[s].phone \in users'[request'[s].user].had
  <2>1. Resetting(request[s]) => request[s].user \in DOMAIN users
    BY DEF AccountsInv, RequestsFit, Fits, Resetting
  <2>2. request'[s].phone # None
    <3>1. Fits(request[s])' /\ codes' \in Seq(Code)
      BY AccountsNextInv DEF AccountsInv, RequestsFit, AccountsTypeOK
    <3>2. request'[s].row \in DOMAIN codes' /\ codes'[request'[s].row].addr = request'[s].phone
      BY <1>2, <3>1 DEF Fits, Resetting
    <3>3. codes'[request'[s].row] \in Code
      BY <3>1, <3>2
    <3> QED
      BY <3>2, <3>3, AccountsAssumption DEF Code, Addresses
  <2>3. CASE Resetting(request[s]) /\ request'[s].user = request[s].user
             /\ request'[s].phone = request[s].phone
    BY <2>1, <2>3, AccountsStay DEF PhonesFit, AccountKept
  <2>4. CASE /\ request'[s].user \in DOMAIN users
             /\ users[request'[s].user].phone = request'[s].phone
    BY <2>2, <2>4, AccountsStay DEF PhonesFit, HadItsPhone, AccountKept
  <2> QED
    BY <1>2, <2>3, <2>4, ResetsFind
<1> QED
  BY <1>1, <1>2 DEF PhonesFit, Resetting

\* A password changes only in the statement of a reset that has spent a code
\* sent to a phone of the account.
LEMMA PasswordSteps ==
  ASSUME AccountsInv, PhonesFit, [AccountsNext]_accountVars, NEW i \in DOMAIN users,
         users'[i].pass # users[i].pass
  PROVE  \E j \in DOMAIN codes :
           codes[j].addr \in users[i].had /\ codes[j].used /\ codes[j].uses > 0
<1>1. AccountsTypeOK /\ users \in Seq(User) /\ users[i] \in User
  BY RowsAre DEF AccountsInv, AccountsTypeOK
<1>2. ASSUME UNCHANGED users PROVE FALSE
  BY <1>2
<1>3. ASSUME NEW s \in Slots, CreateUser(s) PROVE FALSE
  <2>1. PICK u : users' = Append(users, u)
    BY <1>2, <1>3 DEF CreateUser
  <2>2. users'[i] = users[i]
    BY <1>1, <2>1, RowsAre
  <2> QED
    BY <2>2
<1>4. ASSUME NEW s \in Slots, DeleteOwner(s) PROVE FALSE
  <2>1. PICK k : k = request[s].user
    OBVIOUS
  <2>2. users' = [users EXCEPT ![k].live = FALSE]
    BY <1>4, <2>1 DEF DeleteOwner
  <2>3. users'[i].pass = users[i].pass
    <3>1. CASE i = k
      BY <1>1, <2>2, <3>1 DEF User
    <3>2. CASE i # k
      BY <1>1, <2>2, <3>2
    <3> QED
      BY <3>1, <3>2
  <2> QED
    BY <2>3
<1>5. ASSUME NEW s \in Slots, UpdatePasswordHash(s)
      PROVE  \E j \in DOMAIN codes :
               codes[j].addr \in users[i].had /\ codes[j].used /\ codes[j].uses > 0
  <2>1. PICK r : r = request[s]
    OBVIOUS
  <2>2. Fits(r) /\ r.pc = "password"
    BY <1>5, <2>1 DEF UpdatePasswordHash, AccountsInv, RequestsFit, Fits
  <2>3. users' = users \/ users' = [users EXCEPT ![r.user].pass = r.pass]
    BY <1>5, <2>1 DEF UpdatePasswordHash
  <2>4. i = r.user
    BY <1>1, <2>3
  <2>5. r.phone \in users[i].had
    BY <2>1, <2>2, <2>4 DEF PhonesFit, Resetting, Fits
  <2>6. /\ r.row \in DOMAIN codes /\ codes[r.row].addr \in users[i].had
        /\ codes[r.row].used /\ codes[r.row].uses > 0
    BY <2>2, <2>5 DEF Fits
  <2> QED
    BY <2>6
<1>6. ASSUME NEW s \in Slots, BeginPublic(s) \/ BeginAdmin(s) PROVE UNCHANGED users
  BY <1>6
  DEF BeginPublic, BeginAdmin, SignupRequestOtp, Register, SignupEmailVerifyOtp,
      ForgotPassword, VerifyForgotPasswordOtp, ResetPassword, AddAdmin,
      AddRestaurantOwner, DeleteRestaurantOwner, Begin
<1>7. ASSUME NEW s \in Slots, Statement(s)
      PROVE  \/ UNCHANGED users \/ CreateUser(s) \/ DeleteOwner(s) \/ UpdatePasswordHash(s)
  BY <1>7
  DEF Statement, ReadCode, CountAttempt, RecountAttempts, CloseCode, MarkOtpCodeUsed,
      RetireCodes, StoreCode, CheckEmail, CheckPhone, FindByPhone, CheckOwner
<1>8. ASSUME UNCHANGED accountVars PROVE UNCHANGED users
  BY <1>8 DEF accountVars
<1> QED
  BY <1>2, <1>3, <1>4, <1>5, <1>6, <1>7, <1>8 DEF AccountsNext, Abandon, ExpireCode

-----------------------------------------------------------------------------
(* The address book.                                                       *)

OwnRows(u) == {i \in DOMAIN address : address[i].owner = u}

\* The transactions that have cleared user u's defaults, or are waiting to.
Clearing(u) ==
  {s \in Sessions : /\ change[s] # NoChange /\ change[s].user = u
                    /\ change[s].flag = TRUE /\ change[s].pc # "clear"}

\* The rows that transactions A clear when they commit.
SeenBy(A) == UNION {change[s].seen : s \in A}

\* What a transaction c works on.
ChangeFits(c) ==
  /\ c.pc \in {"clear", "wait"} => c.flag = TRUE
  /\ c.flag # TRUE => c.seen = {}
  /\ c.row = 0 => c.flag # NotGiven
  /\ c.seen \cup c.locked \subseteq OwnRows(c.user)

ChangesFit == \A s \in Sessions : change[s] # NoChange => ChangeFits(change[s])

\* However many of the transactions at work commit first, the defaults they
\* leave and the ones they add are no more than the sessions.
Balanced(u) ==
  \A A \in SUBSET Clearing(u) :
    Cardinality(Defaults(u) \ SeenBy(A)) + Cardinality(A) <= Cardinality(Sessions)

AddressInv == AddressTypeOK /\ ChangesFit /\ \A u \in Customers : Balanced(u)

LEMMA AddressRows ==
  ASSUME AddressTypeOK
  PROVE  /\ DOMAIN address = 1..Len(address) /\ Len(address) \in Nat
         /\ \A i \in DOMAIN address : address[i] \in Row
         /\ \A T : T \subseteq DOMAIN address => IsFiniteSet(T) /\ Cardinality(T) \in Nat
<1>1. /\ DOMAIN address = 1..Len(address) /\ Len(address) \in Nat
      /\ \A i \in DOMAIN address : address[i] \in Row
  BY DEF AddressTypeOK
<1>2. IsFiniteSet(DOMAIN address)
  BY <1>1, FS_Interval
<1>3. ASSUME NEW T, T \subseteq DOMAIN address PROVE IsFiniteSet(T) /\ Cardinality(T) \in Nat
  BY <1>2, <1>3, FS_Subset, FS_CardinalityType
<1> QED
  BY <1>1, <1>3

LEMMA FewSessions ==
  ASSUME NEW A, A \subseteq Sessions
  PROVE  /\ IsFiniteSet(A) /\ Cardinality(A) \in Nat
         /\ Cardinality(A) <= Cardinality(Sessions) /\ Cardinality(Sessions) \in Nat
BY AddressAssumption, FS_Subset, FS_CardinalityType

LEMMA OneMore ==
  ASSUME NEW S, IsFiniteSet(S), NEW x
  PROVE  /\ IsFiniteSet(S \cup {x}) /\ Cardinality(S \cup {x}) \in Nat
         /\ Cardinality(S \cup {x}) <= Cardinality(S) + 1 /\ Cardinality(S) \in Nat
<1>1. /\ IsFiniteSet(S \cup {x}) /\ Cardinality(S) \in Nat
      /\ Cardinality(S \cup {x}) = IF x \in S THEN Cardinality(S) ELSE Cardinality(S) + 1
  BY FS_AddElement, FS_CardinalityType
<1> QED
  BY <1>1

LEMMA SomeChange ==
  ASSUME AddressTypeOK, NEW s \in Sessions, change[s] # NoChange
  PROVE  change[s] \in Change
BY DEF AddressTypeOK

\* A step that leaves user u's transactions alone and gives him no default.
LEMMA BalanceStays ==
  ASSUME AddressTypeOK, NEW u, Balanced(u), Defaults(u)' \subseteq Defaults(u),
         Clearing(u)' \subseteq Clearing(u),
         \A s \in Clearing(u)' : change'[s].seen = change[s].seen
  PROVE  Balanced(u)'
<1> SUFFICES ASSUME NEW A \in SUBSET (Clearing(u)')
             PROVE  Cardinality(Defaults(u)' \ SeenBy(A)') + Cardinality(A)
                      <= Cardinality(Sessions)
  BY DEF Balanced
<1>1. SeenBy(A)' = SeenBy(A)
  BY DEF SeenBy
<1>2. /\ Defaults(u)' \ SeenBy(A)' \subseteq Defaults(u) \ SeenBy(A)
      /\ Defaults(u) \ SeenBy(A) \subseteq DOMAIN address
  BY <1>1 DEF Defaults, RowsOf
<1>3. /\ Cardinality(Defaults(u)' \ SeenBy(A)') <= Cardinality(Defaults(u) \ SeenBy(A))
      /\ Cardinality(Defaults(u)' \ SeenBy(A)') \in Nat
      /\ Cardinality(Defaults(u) \ SeenBy(A)) \in Nat
  BY <1>2, AddressRows, FS_Subset, FS_CardinalityType
<1>4. A \subseteq Clearing(u) /\ A \subseteq Sessions
  BY DEF Clearing
<1>5. Cardinality(A) \in Nat /\ Cardinality(Sessions) \in Nat
  BY <1>4, FewSessions
<1>6. Cardinality(Defaults(u) \ SeenBy(A)) + Cardinality(A) <= Cardinality(Sessions)
  BY <1>4 DEF Balanced
<1> QED
  BY <1>3, <1>5, <1>6

\* One transaction moves on; the addresses stay.
LEMMA ChangeKeeps ==
  ASSUME AddressInv, NEW s \in Sessions, NEW c \in Change \cup {NoChange},
         change' = [change EXCEPT ![s] = c], UNCHANGED address,
         changes' \in 0..MaxChanges, c # NoChange => ChangeFits(c),
         \A u \in Customers : s \in Clearing(u)' =>
           \/ s \in Clearing(u) /\ c.seen = change[s].seen
           \/ RowsOf(u) \subseteq c.seen
  PROVE  AddressInv'
<1>1. AddressTypeOK'
  BY DEF AddressInv, AddressTypeOK
<1>2. change'[s] = c /\ \A r \in Sessions : r # s => change'[r] = change[r]
  BY DEF AddressInv, AddressTypeOK
<1>3. ChangesFit'
  <2>1. \A d : ChangeFits(d) => ChangeFits(d)'
    BY DEF ChangeFits, OwnRows
  <2> QED
    BY <1>2, <2>1 DEF AddressInv, ChangesFit
<1>4. ASSUME NEW u \in Customers PROVE Balanced(u)'
  <2>1. \A r \in Sessions : r # s => (r \in Clearing(u)' <=> r \in Clearing(u))
    BY <1>2 DEF Clearing
  <2>2. Defaults(u)' = Defaults(u) /\ AddressTypeOK /\ Balanced(u)
    BY DEF Defaults, RowsOf, AddressInv
  <2>3. CASE s \in Clearing(u)' => s \in Clearing(u) /\ c.seen = change[s].seen
    <3>1. Clearing(u)' \subseteq Clearing(u)
      BY <2>1, <2>3 DEF Clearing
    <3>2. \A r \in Clearing(u)' : change'[r].seen = change[r].seen
      BY <1>2, <2>3, <3>1 DEF Clearing
    <3> QED
      BY <2>2, <3>1, <3>2, BalanceStays
  <2>4. CASE RowsOf(u) \subseteq c.seen
    <3> SUFFICES ASSUME NEW A \in SUBSET (Clearing(u)')
                 PROVE  Cardinality(Defaults(u)' \ SeenBy(A)') + Cardinality(A)
                          <= Cardinality(Sessions)
      BY DEF Balanced
    <3>1. A \subseteq Sessions
      BY DEF Clearing
    <3>2. CASE s \in A
      <4>1. Defaults(u)' \ SeenBy(A)' = {}
        BY <1>2, <2>2, <2>4, <3>2 DEF SeenBy, Defaults
      <4>2. Cardinality(Defaults(u)' \ SeenBy(A)') = 0
        BY <4>1, FS_EmptySet
      <4> QED
        BY <3>1, <4>2, FewSessions
    <3>3. CASE s \notin A
      <4>1. A \subseteq Clearing(u)
        BY <2>1, <3>1, <3>3
      <4>2. \A r \in A : change'[r].seen = change[r].seen
        BY <1>2, <3>1, <3>3
      <4>3. SeenBy(A)' = SeenBy(A)
        BY <4>2 DEF SeenBy
      <4> QED
        BY <2>2, <4>1, <4>3 DEF Balanced
    <3> QED
      BY <3>2, <3>3
  <2> QED
    BY <2>3, <2>4
<1> QED
  BY <1>1, <1>3, <1>4 DEF AddressInv

LEMMA BeginChangeKeeps ==
  ASSUME AddressInv, NEW s \in Sessions, NEW u \in Customers, NEW i \in Nat,
         NEW flag \in BOOLEAN \cup {NotGiven}, i = 0 => flag # NotGiven,
         BeginChange(s, u, i, flag)
  PROVE  AddressInv'
<1>1. PICK c : c = [pc |-> IF flag = TRUE THEN "clear" ELSE "write", user |-> u, row |-> i,
                    flag |-> flag, seen |-> {}, locked |-> {}]
  OBVIOUS
<1>2. /\ c \in Change /\ c.seen = {} /\ c.locked = {} /\ c.row = i /\ c.flag = flag
      /\ c.pc = IF flag = TRUE THEN "clear" ELSE "write"
  BY <1>1 DEF Change
<1>3. ChangeFits(c)
  BY <1>2 DEF ChangeFits
<1>4. /\ change' = [change EXCEPT ![s] = c] /\ UNCHANGED address
      /\ changes' \in 0..MaxChanges
  BY <1>1, AddressAssumption DEF BeginChange, AddressInv, AddressTypeOK
<1>5. \A v : s \notin Clearing(v)'
  BY <1>2, <1>4 DEF Clearing, AddressInv, AddressTypeOK
<1> QED
  BY <1>2, <1>3, <1>4, <1>5, ChangeKeeps

LEMMA ClearKeeps ==
  ASSUME AddressInv, NEW s \in Sessions,
         StartClear(s) \/ FinishClear(s) \/ WriteAddress(s) \/ RollbackAddress(s)
  PROVE  AddressInv'
<1> DEFINE c == change[s]
<1>1. c \in Change /\ ChangeFits(c) /\ change[s] # NoChange /\ AddressTypeOK
  BY SomeChange DEF AddressInv, ChangesFit, StartClear, FinishClear, WriteAddress,
                    RollbackAddress
<1>2. changes' \in 0..MaxChanges /\ UNCHANGED address
  BY DEF StartClear, FinishClear, WriteAddress, RollbackAddress, AddressInv, AddressTypeOK
<1>3. \A u : RowsOf(u) \subseteq OwnRows(u) /\ OwnRows(u) \subseteq Nat
  BY <1>1, AddressRows DEF RowsOf, OwnRows
<1>4. CASE StartClear(s)
  <2>1. PICK d : d = [c EXCEPT !.pc = "wait", !.seen = RowsOf(c.user)]
    OBVIOUS
  <2>2. /\ d \in Change /\ d.user = c.user /\ d.seen = RowsOf(c.user) /\ d.row = c.row
        /\ d.flag = c.flag /\ d.locked = c.locked /\ d.pc = "wait"
    BY <1>1, <1>3, <2>1 DEF Change
  <2>3. c.flag = TRUE
    BY <1>1, <1>4 DEF StartClear, ChangeFits
  <2>4. ChangeFits(d)
    BY <1>1, <1>3, <2>2, <2>3 DEF ChangeFits
  <2>5. change' = [change EXCEPT ![s] = d] /\ change'[s] = d
    BY <1>1, <1>4, <2>1 DEF StartClear, AddressTypeOK
  <2>6. \A u \in Customers : s \in Clearing(u)' => RowsOf(u) \subseteq d.seen
    BY <2>2, <2>5 DEF Clearing
  <2> HIDE DEF c
  <2> QED
    BY <1>2, <2>2, <2>4, <2>5, <2>6, ChangeKeeps
<1>5. CASE FinishClear(s)
  <2>1. PICK d : d = [c EXCEPT !.pc = "write", !.locked = c.seen]
    OBVIOUS
  <2>2. /\ d \in Change /\ d.user = c.user /\ d.seen = c.seen /\ d.row = c.row
        /\ d.flag = c.flag /\ d.locked = c.seen /\ d.pc = "write"
    BY <1>1, <2>1 DEF Change
  <2>3. ChangeFits(d)
    BY <1>1, <2>2 DEF ChangeFits
  <2>4. change' = [change EXCEPT ![s] = d] /\ change'[s] = d
    BY <1>1, <1>5, <2>1 DEF FinishClear, AddressTypeOK
  <2>5. \A u \in Customers : s \in Clearing(u)' => s \in Clearing(u) /\ d.seen = change[s].seen
    BY <1>1, <1>5, <2>2, <2>4 DEF Clearing, FinishClear
  <2> HIDE DEF c
  <2> QED
    BY <1>2, <2>2, <2>3, <2>4, <2>5, ChangeKeeps
<1>6. CASE WriteAddress(s)
  <2>1. PICK d : d = [c EXCEPT !.pc = "commit",
                               !.locked = c.locked \cup (RowsOf(c.user) \cap {c.row})]
    OBVIOUS
  <2>2. /\ d \in Change /\ d.user = c.user /\ d.seen = c.seen /\ d.row = c.row
        /\ d.flag = c.flag /\ d.pc = "commit"
        /\ d.locked = c.locked \cup (RowsOf(c.user) \cap {c.row})
    BY <1>1, <1>3, <2>1 DEF Change
  <2>3. ChangeFits(d)
    BY <1>1, <1>3, <2>2 DEF ChangeFits
  <2>4. change' = [change EXCEPT ![s] = d] /\ change'[s] = d
    BY <1>1, <1>6, <2>1 DEF WriteAddress, AddressTypeOK
  <2>5. \A u \in Customers : s \in Clearing(u)' => s \in Clearing(u) /\ d.seen = change[s].seen
    BY <1>1, <1>6, <2>2, <2>4 DEF Clearing, WriteAddress
  <2> HIDE DEF c
  <2> QED
    BY <1>2, <2>2, <2>3, <2>4, <2>5, ChangeKeeps
<1>7. CASE RollbackAddress(s)
  <2>1. change' = [change EXCEPT ![s] = NoChange] /\ change'[s] = NoChange
    BY <1>1, <1>7 DEF RollbackAddress, AddressTypeOK
  <2>2. \A u : s \notin Clearing(u)'
    BY <2>1 DEF Clearing
  <2> QED
    BY <1>2, <2>1, <2>2, ChangeKeeps
<1> QED
  BY <1>4, <1>5, <1>6, <1>7

\* The addresses change but none changes hands; the transactions go on.
LEMMA FitStays ==
  ASSUME AddressTypeOK, NEW c, ChangeFits(c), DOMAIN address \subseteq DOMAIN address',
         \A i \in DOMAIN address : address'[i].owner = address[i].owner
  PROVE  ChangeFits(c)'
<1>1. OwnRows(c.user) \subseteq OwnRows(c.user)'
  BY DEF OwnRows
<1> QED
  BY <1>1 DEF ChangeFits

LEMMA DeleteAddressKeeps ==
  ASSUME AddressInv, NEW u, NEW i, DeleteAddress(u, i) PROVE AddressInv'
<1>1. i \in DOMAIN address /\ AddressTypeOK /\ address[i] \in Row
  BY AddressRows DEF DeleteAddress, RowsOf, AddressInv
<1>2. PICK a : a = [address[i] EXCEPT !.live = FALSE]
  OBVIOUS
<1>3. a \in Row /\ a.owner = address[i].owner /\ a.default = address[i].default /\ ~a.live
  BY <1>1, <1>2 DEF Row
<1>4. /\ address' = [address EXCEPT ![i] = a] /\ UNCHANGED <<change, changes>>
      /\ address' \in Seq(Row) /\ DOMAIN address' = DOMAIN address
      /\ address'[i] = a /\ \A k \in DOMAIN address : k # i => address'[k] = address[k]
  BY <1>1, <1>2, <1>3 DEF DeleteAddress, AddressTypeOK
<1>5. AddressTypeOK'
  BY <1>1, <1>4 DEF AddressTypeOK
<1>6. ChangesFit'
  <2>1. \A k \in DOMAIN address : address'[k].owner = address[k].owner
    BY <1>3, <1>4
  <2> QED
    BY <1>1, <1>4, <2>1, FitStays DEF AddressInv, ChangesFit
<1>7. ASSUME NEW v \in Customers PROVE Balanced(v)'
  <2>1. Defaults(v)' \subseteq Defaults(v)
    BY <1>3, <1>4 DEF Defaults, RowsOf
  <2>2. Clearing(v)' = Clearing(v) /\ \A s \in Clearing(v)' : change'[s].seen = change[s].seen
    BY <1>4 DEF Clearing
  <2> QED
    BY <1>1, <2>1, <2>2, BalanceStays DEF AddressInv
<1> QED
  BY <1>5, <1>6, <1>7 DEF AddressInv

\* What a commit leaves of the rows it finds.
LEMMA AfterIs ==
  ASSUME AddressTypeOK, NEW c \in Change, ChangeFits(c), NEW i \in DOMAIN address
  PROVE  /\ After(c, i) \in Row /\ After(c, i).owner = address[i].owner
         /\ After(c, i).live = address[i].live
         /\ After(c, i).default =>
              \/ i = c.row /\ c.flag = TRUE /\ address[i].owner = c.user
              \/ address[i].default /\ i \notin c.seen
<1>1. address[i] \in Row
  BY AddressRows
<1>2. PICK d : d = IF i = c.row /\ i \in c.locked /\ c.flag # NotGiven THEN c.flag
                   ELSE address[i].default /\ i \notin c.seen
  OBVIOUS
<1>3. After(c, i) = [address[i] EXCEPT !.default = d]
  BY <1>2 DEF After
<1>4. d \in BOOLEAN
  <2>1. CASE i = c.row /\ i \in c.locked /\ c.flag # NotGiven
    BY <1>2, <2>1 DEF Change
  <2>2. CASE ~(i = c.row /\ i \in c.locked /\ c.flag # NotGiven)
    BY <1>2, <2>2
  <2> QED
    BY <2>1, <2>2
<1>5. d => \/ i = c.row /\ c.flag = TRUE /\ address[i].owner = c.user
           \/ address[i].default /\ i \notin c.seen
  <2>1. CASE i = c.row /\ i \in c.locked /\ c.flag # NotGiven
    <3>1. d = c.flag /\ c.flag \in BOOLEAN /\ address[i].owner = c.user
      BY <1>2, <2>1 DEF Change, ChangeFits, OwnRows
    <3> QED
      BY <2>1, <3>1
  <2>2. CASE ~(i = c.row /\ i \in c.locked /\ c.flag # NotGiven)
    BY <1>2, <2>2
  <2> QED
    BY <2>1, <2>2
<1> QED
  BY <1>1, <1>3, <1>4, <1>5 DEF Row

\* A commit adds one default, and only in place of those it clears.
LEMMA CommitRows ==
  ASSUME AddressTypeOK, NEW s \in Sessions, change[s] # NoChange, ChangeFits(change[s]),
         CommitAddress(s)
  PROVE  /\ address' \in Seq(Row) /\ DOMAIN address \subseteq DOMAIN address'
         /\ \A i \in DOMAIN address : address'[i].owner = address[i].owner
         /\ \E x : \A v :
              Defaults(v)' \subseteq
                IF v = change[s].user /\ change[s].flag = TRUE
                  THEN (Defaults(v) \ change[s].seen) \cup {x} ELSE Defaults(v)
<1>1. PICK c \in Change : c = change[s]
  BY SomeChange
<1>2. PICK f : f = [i \in DOMAIN address |-> After(c, i)]
  OBVIOUS
<1>3. /\ f \in Seq(Row) /\ DOMAIN f = DOMAIN address /\ Len(f) = Len(address)
      /\ \A i \in DOMAIN address : f[i] = After(c, i)
  <2>1. \A i \in DOMAIN address : f[i] = After(c, i) /\ f[i] \in Row
    BY <1>1, <1>2, AfterIs
  <2>2. DOMAIN f = 1..Len(address) /\ Len(address) \in Nat
    BY <1>2, AddressRows
  <2>3. f \in [1..Len(address) -> Row]
    BY <1>2, <2>1, <2>2
  <2> QED
    BY <2>1, <2>2, <2>3, AddressRows
<1>4. \A i \in DOMAIN address :
        /\ f[i].owner = address[i].owner /\ f[i].live = address[i].live
        /\ f[i].default => \/ i = c.row /\ c.flag = TRUE /\ address[i].owner = c.user
                           \/ address[i].default /\ i \notin c.seen
  BY <1>1, <1>3, AfterIs
<1>5. CASE c.row # 0
  <2>1. address' = f
    BY <1>1, <1>2, <1>5 DEF CommitAddress
  <2>2. ASSUME NEW v, NEW i \in Defaults(v)'
        PROVE  i \in IF v = c.user /\ c.flag = TRUE
                       THEN (Defaults(v) \ c.seen) \cup {c.row} ELSE Defaults(v)
    BY <1>3, <1>4, <2>1, <2>2 DEF Defaults, RowsOf
  <2> QED
    BY <1>1, <1>3, <1>4, <2>1, <2>2
<1>6. CASE c.row = 0
  <2>1. PICK a : a = [owner |-> c.user, default |-> c.flag, live |-> TRUE]
    OBVIOUS
  <2>2. a \in Row /\ a.owner = c.user /\ a.default = c.flag
    BY <1>1, <1>6, <2>1 DEF Row, Change, ChangeFits
  <2>3. address' = Append(f, a)
    BY <1>1, <1>2, <1>6, <2>1 DEF CommitAddress
  <2>4. PICK n : n = Len(f) + 1
    OBVIOUS
  <2>5. /\ address' \in Seq(Row) /\ DOMAIN address' = DOMAIN address \cup {n}
        /\ address'[n] = a /\ \A i \in DOMAIN address : address'[i] = f[i] /\ i # n
    BY <1>3, <2>2, <2>3, <2>4, AddressRows
  <2>6. ASSUME NEW v, NEW i \in Defaults(v)', i # n
        PROVE  i \in Defaults(v) \ c.seen
    <3>1. i \in DOMAIN address /\ i # c.row
      BY <1>6, <2>5, <2>6, AddressRows DEF Defaults, RowsOf
    <3> QED
      BY <1>4, <2>5, <2>6, <3>1 DEF Defaults, RowsOf
  <2>7. ASSUME NEW v, n \in Defaults(v)' PROVE v = c.user /\ c.flag = TRUE
    <3>1. a.owner = v /\ a.default
      BY <2>5, <2>7 DEF Defaults, RowsOf
    <3>2. c.flag \in BOOLEAN
      BY <1>1, <1>6 DEF Change, ChangeFits
    <3> QED
      BY <2>2, <3>1, <3>2
  <2>8. ASSUME NEW v
        PROVE  Defaults(v)' \subseteq
                 IF v = c.user /\ c.flag = TRUE THEN (Defaults(v) \ c.seen) \cup {n}
                 ELSE Defaults(v)
    BY <2>6, <2>7
  <2> QED
    BY <1>1, <1>4, <2>5, <2>8
<1> QED
  BY <1>5, <1>6

LEMMA CommitBalances ==
  ASSUME AddressInv, NEW s \in Sessions, CommitAddress(s), NEW u \in Customers
  PROVE  Balanced(u)'
<1>1. PICK c \in Change : c = change[s]
  BY SomeChange DEF AddressInv, CommitAddress
<1>2. /\ change[s] # NoChange /\ ChangeFits(c) /\ AddressTypeOK /\ Balanced(u)
      /\ c.pc = "commit"
  BY <1>1 DEF AddressInv, ChangesFit, CommitAddress
<1>3. PICK x : Defaults(u)' \subseteq
                 IF u = c.user /\ c.flag = TRUE
                   THEN (Defaults(u) \ c.seen) \cup {x} ELSE Defaults(u)
  BY <1>1, <1>2, CommitRows
<1>4. /\ Clearing(u)' = Clearing(u) \ {s}
      /\ \A r \in Sessions : r # s => change'[r] = change[r]
  BY <1>2 DEF CommitAddress, Clearing, AddressTypeOK
<1>5. CASE ~(u = c.user /\ c.flag = TRUE)
  <2>1. Defaults(u)' \subseteq Defaults(u)
    BY <1>3, <1>5
  <2>2. Clearing(u)' \subseteq Clearing(u) /\ \A r \in Clearing(u)' : change'[r].seen = change[r].seen
    BY <1>4 DEF Clearing
  <2> QED
    BY <1>2, <2>1, <2>2, BalanceStays
<1>6. CASE u = c.user /\ c.flag = TRUE
  <2> SUFFICES ASSUME NEW A \in SUBSET (Clearing(u)')
               PROVE  Cardinality(Defaults(u)' \ SeenBy(A)') + Cardinality(A)
                        <= Cardinality(Sessions)
    BY DEF Balanced
  <2>1. /\ A \subseteq Clearing(u) /\ s \notin A /\ A \subseteq Sessions
        /\ A \cup {s} \in SUBSET Clearing(u)
    BY <1>1, <1>2, <1>4, <1>6 DEF Clearing
  <2>2. Cardinality(A \cup {s}) = Cardinality(A) + 1 /\ Cardinality(A) \in Nat
        /\ Cardinality(Sessions) \in Nat
    BY <2>1, FewSessions, FS_AddElement
  <2> DEFINE D == Defaults(u) \ SeenBy(A \cup {s})
  <2>3. Cardinality(D) + Cardinality(A \cup {s}) <= Cardinality(Sessions)
    BY <1>2, <2>1 DEF Balanced
  <2>4. Defaults(u)' \ SeenBy(A)' \subseteq D \cup {x}
    <3>1. \A r \in A : change'[r] = change[r]
      BY <1>4, <2>1
    <3>2. SeenBy(A)' \cup c.seen = SeenBy(A \cup {s})
      BY <1>1, <3>1 DEF SeenBy
    <3> QED
      BY <1>3, <1>6, <3>2
  <2>5. IsFiniteSet(D) /\ Cardinality(D) \in Nat
    BY <1>2, AddressRows DEF Defaults, RowsOf
  <2> HIDE DEF D
  <2>6. IsFiniteSet(D \cup {x}) /\ Cardinality(D \cup {x}) \in Nat
        /\ Cardinality(D \cup {x}) <= Cardinality(D) + 1
    BY <2>5, OneMore
  <2>7. /\ Cardinality(Defaults(u)' \ SeenBy(A)') <= Cardinality(D \cup {x})
        /\ Cardinality(Defaults(u)' \ SeenBy(A)') \in Nat
    BY <2>4, <2>6, FS_Subset, FS_CardinalityType
  <2> QED
    BY <2>2, <2>3, <2>5, <2>6, <2>7
<1> QED
  BY <1>5, <1>6

LEMMA CommitKeeps ==
  ASSUME AddressInv, NEW s \in Sessions, CommitAddress(s) PROVE AddressInv'
<1>1. AddressTypeOK /\ change[s] # NoChange /\ ChangeFits(change[s])
  BY DEF AddressInv, ChangesFit, CommitAddress
<1>2. /\ address' \in Seq(Row) /\ DOMAIN address \subseteq DOMAIN address'
      /\ \A i \in DOMAIN address : address'[i].owner = address[i].owner
  BY <1>1, CommitRows
<1>3. change' = [change EXCEPT ![s] = NoChange] /\ UNCHANGED changes
  BY DEF CommitAddress
<1>4. AddressTypeOK'
  BY <1>1, <1>2, <1>3 DEF AddressTypeOK
<1>5. ASSUME NEW r \in Sessions, change'[r] # NoChange PROVE ChangeFits(change[r])'
  <2>1. change'[r] = change[r] /\ change[r] # NoChange
    BY <1>1, <1>3, <1>5 DEF AddressTypeOK
  <2>2. ChangeFits(change[r])
    BY <2>1 DEF AddressInv, ChangesFit
  <2>3. PICK c : c = change[r]
    OBVIOUS
  <2>4. ChangeFits(c)'
    BY <1>1, <1>2, <2>2, <2>3, FitStays
  <2> QED
    BY <2>1, <2>3, <2>4 DEF ChangeFits
<1>6. ChangesFit'
  BY <1>5 DEF ChangesFit
<1> QED
  BY <1>4, <1>6, CommitBalances DEF AddressInv

LEMMA AddressInitInv == AddressInit => AddressInv
<1> SUFFICES ASSUME AddressInit PROVE AddressInv
  OBVIOUS
<1>1. AddressTypeOK /\ ChangesFit
  BY AddressAssumption DEF AddressInit, AddressTypeOK, ChangesFit
<1>2. ASSUME NEW u \in Customers, NEW A \in SUBSET Clearing(u)
      PROVE  Cardinality(Defaults(u) \ SeenBy(A)) + Cardinality(A) <= Cardinality(Sessions)
  <2>1. Defaults(u) \ SeenBy(A) = {} /\ A = {}
    BY DEF AddressInit, Defaults, RowsOf, Clearing
  <2>2. Cardinality({}) = 0 /\ Cardinality(Sessions) \in Nat
    BY FewSessions, FS_EmptySet
  <2> QED
    BY <2>1, <2>2
<1> QED
  BY <1>1, <1>2 DEF AddressInv, Balanced

LEMMA AddressNextInv == AddressInv /\ [AddressNext]_addressVars => AddressInv'
<1> SUFFICES ASSUME AddressInv, [AddressNext]_addressVars PROVE AddressInv'
  OBVIOUS
<1>1. ASSUME NEW s \in Sessions, NEW u \in Customers, NEW flag \in BOOLEAN,
             CreateAddress(s, u, flag)
      PROVE  AddressInv'
  <2>1. flag # NotGiven
    BY AddressAssumption
  <2> QED
    BY <1>1, <2>1, BeginChangeKeeps DEF CreateAddress
<1>2. ASSUME NEW s \in Sessions, NEW u \in Customers, NEW i \in DOMAIN address,
             NEW flag \in BOOLEAN \cup {NotGiven}, UpdateAddress(s, u, i, flag)
      PROVE  AddressInv'
  <2>1. i \in Nat /\ i # 0
    BY AddressRows DEF AddressInv
  <2> QED
    BY <1>2, <2>1, BeginChangeKeeps DEF UpdateAddress
<1>3. CASE UNCHANGED addressVars
  <2>1. UNCHANGED <<address, change, changes>>
    BY <1>3 DEF addressVars
  <2>2. AddressTypeOK' /\ ChangesFit'
    BY <2>1 DEF AddressInv, AddressTypeOK, ChangesFit, ChangeFits, OwnRows
  <2>3. ASSUME NEW u \in Customers PROVE Balanced(u)'
    <3>1. Defaults(u)' = Defaults(u) /\ Clearing(u)' = Clearing(u)
      BY <2>1 DEF Defaults, RowsOf, Clearing
    <3> QED
      BY <2>1, <3>1, BalanceStays DEF AddressInv
  <2> QED
    BY <2>2, <2>3 DEF AddressInv
<1> QED
  BY <1>1, <1>2, <1>3, ClearKeeps, CommitKeeps, DeleteAddressKeeps DEF AddressNext

LEMMA AddressAlways == AddressSpec => []AddressInv
<1> QED
  BY AddressInitInv, AddressNextInv, PTL DEF AddressSpec

LEMMA DefaultsFit == AddressInv => DefaultsBounded
<1> SUFFICES ASSUME AddressInv, NEW u \in Customers
             PROVE  Cardinality(Defaults(u)) <= Cardinality(Sessions)
  BY DEF DefaultsBounded
<1>1. Cardinality(Defaults(u) \ SeenBy({})) + Cardinality({}) <= Cardinality(Sessions)
  BY DEF AddressInv, Balanced
<1>2. Defaults(u) \ SeenBy({}) = Defaults(u) /\ Cardinality({}) = 0
  BY FS_EmptySet DEF SeenBy
<1>3. Cardinality(Defaults(u)) \in Nat /\ Cardinality(Sessions) \in Nat
  BY AddressRows, FewSessions DEF AddressInv, Defaults, RowsOf
<1> QED
  BY <1>1, <1>2, <1>3

\* A user has no more default addresses than there are transactions at once.
THEOREM DefaultsStayBounded == AddressSpec => []DefaultsBounded
<1> QED
  BY DefaultsFit, AddressAlways, PTL

-----------------------------------------------------------------------------
(* Employees and drivers.                                                  *)

Adders == {"addEmployee", "addDriver"}

\* What a job j works on that creates an account: it has still to create it,
\* or it has and still adds the rows an employee or a driver needs.
HireFits(j) ==
  IF "hire" \in j.todo
  THEN /\ j.email \in Emails /\ j.phone \in Phones
       /\ IF j.op = "addEmployee"
            THEN /\ j.todo \subseteq {"email", "phone", "role", "hire", "profile", "assign",
                                    "image"}
                 /\ "profile" \in j.todo /\ "assign" \in j.todo
            ELSE /\ j.todo \subseteq {"email", "phone", "hire", "driverProfile", "image"}
                 /\ "driverProfile" \in j.todo
  ELSE /\ j.user \in hired /\ j.user \in DOMAIN users
       /\ users[j.user].role = IF j.op = "addEmployee" THEN "employee" ELSE "driver"
       /\ \/ j.todo = {"undo"}
          \/ /\ j.op = "addDriver" /\ j.todo \subseteq {"driverProfile", "image"}
             /\ users[j.user].live => "driverProfile" \in j.todo \/ driver[j.user] # None
          \/ /\ j.op = "addEmployee" /\ j.todo \subseteq {"profile", "assign", "image"}
             /\ users[j.user].live =>
                  /\ "profile" \in j.todo \/ profile[j.user] # None
                  /\ "assign" \in j.todo \/ assigned[j.user] # None

\* What any job works on.
JobFits(j) ==
  /\ j.op \in Adders /\ j.todo # {} => HireFits(j)
  /\ j.op \notin Adders =>
       /\ "hire" \notin j.todo /\ "undo" \notin j.todo /\ "profile" \notin j.todo
       /\ j.todo \subseteq {"newRole", "createRole"} \/ j.user \in DOMAIN users
  /\ j.todo \cap {"newRole", "createRole", "role", "assign"} # {} => j.role \in EmployeeRoles
  /\ j.todo \cap {"status", "profile"} # {} => j.active \in BOOLEAN
  /\ "driverProfile" \in j.todo =>
       /\ j.vehicle \in Vehicles \cup {None} /\ j.owner \in Restaurants \cup {None}
       /\ j.active \in BOOLEAN /\ (j.op = "submit" => j.active = FALSE)

JobsFit == \A s \in Clerks : JobFits(job[s])

Busy == {s \in Slots : request[s] # Idle}
ToHire == {s \in Clerks : "hire" \in job[s].todo}

\* Every account has been created by a request or a job begun.
Room == Len(users) + Cardinality(Busy) + Cardinality(ToHire) <= begun + jobs

TablesTypeOK ==
  /\ roleState \in [EmployeeRoles -> BOOLEAN \cup {None}]
  /\ profile \in [Ids -> BOOLEAN \cup {None}]
  /\ assigned \in [Ids -> EmployeeRoles \cup {None}]
  /\ driver \in [Ids -> Driver \cup {None}]
  /\ hired \cup stranded \cup byHand \subseteq Ids

StaffInv ==
  /\ AccountsInv /\ TablesTypeOK
  /\ job \in [Clerks -> Job] /\ jobs \in 0..MaxJobs
  /\ JobsFit /\ hired \subseteq DOMAIN users /\ Room
  /\ HiresAreComplete /\ ActiveByDecision

-----------------------------------------------------------------------------
(* The places of the statements.                                           *)

LEMMA Places ==
  /\ DOMAIN Place = {"newRole", "newDriver", "employee", "driver", "email", "phone",
       "fields", "status", "role", "move", "hire", "createRole", "profile",
       "driverProfile", "driverFields", "approve", "reject", "assign", "image", "undo"}
  /\ Place["newRole"] = 1 /\ Place["newDriver"] = 1 /\ Place["employee"] = 1
  /\ Place["driver"] = 1 /\ Place["email"] = 2 /\ Place["phone"] = 3
  /\ Place["fields"] = 4 /\ Place["status"] = 5 /\ Place["role"] = 6
  /\ Place["move"] = 6 /\ Place["hire"] = 7 /\ Place["createRole"] = 7
  /\ Place["profile"] = 8 /\ Place["driverProfile"] = 8
  /\ Place["driverFields"] = 8 /\ Place["approve"] = 8 /\ Place["reject"] = 8
  /\ Place["assign"] = 9 /\ Place["image"] = 10 /\ Place["undo"] = 11
BY DEF Place

\* A handler past the creation of the account is inside the try.
PastHire(s) ==
  /\ job[s].op \in Adders /\ job[s].todo # {}
  /\ job[s].todo \subseteq {"profile", "assign", "driverProfile", "image", "undo"}

LEMMA InsideTry == \A s : PastHire(s) => Hiring(s)
<1> SUFFICES ASSUME NEW s, PastHire(s) PROVE Hiring(s)
  OBVIOUS
<1>1. /\ "profile" \in job[s].todo => At(s, "profile")
      /\ "driverProfile" \in job[s].todo => At(s, "driverProfile")
  BY Places DEF At, PastHire
<1>2. "assign" \in job[s].todo => \E x \in {"profile", "assign", "driverProfile"} : At(s, x)
  BY <1>1, Places DEF At, PastHire
<1>3. "image" \in job[s].todo =>
        \E x \in {"profile", "assign", "driverProfile", "image"} : At(s, x)
  BY <1>1, <1>2, Places DEF At, PastHire
<1>4. "undo" \in job[s].todo =>
        \E x \in {"profile", "assign", "driverProfile", "image", "undo"} : At(s, x)
  BY <1>1, <1>2, <1>3, Places DEF At, PastHire
<1>5. \E x \in {"profile", "assign", "driverProfile", "image", "undo"} : At(s, x)
  BY <1>1, <1>2, <1>3, <1>4 DEF PastHire
<1> QED
  BY <1>5 DEF Hiring, Adders, PastHire

LEMMA InsideTryThen == (\A s : PastHire(s) => Hiring(s))'
BY InsideTry, PTL

\* Inside the try the account is there, and the profile and role are next.
LEMMA TryFits ==
  ASSUME NEW s, JobFits(job[s]), Hiring(s)
  PROVE  /\ job[s].op \in Adders /\ job[s].todo # {} /\ "hire" \notin job[s].todo
         /\ HireFits(job[s]) /\ job[s].user \in hired /\ job[s].user \in DOMAIN users
<1>1. PICK x \in {"profile", "assign", "driverProfile", "image", "undo"} : At(s, x)
  BY DEF Hiring
<1>2. job[s].op \in Adders /\ job[s].todo # {} /\ "hire" \notin job[s].todo
  BY <1>1, Places DEF Hiring, At, Adders
<1> QED
  BY <1>2 DEF JobFits, HireFits

LEMMA OutsideTry ==
  ASSUME NEW s, NEW x \in {"newRole", "newDriver", "employee", "driver", "email", "phone",
                           "fields", "status", "role", "move", "hire", "createRole"},
         At(s, x)
  PROVE  ~Hiring(s)
BY Places DEF At, Hiring

-----------------------------------------------------------------------------
(* Tables that only grow.                                                  *)

\* Accounts keep their role and never come back; a live one keeps its rows.
StaffGrows ==
  /\ DOMAIN users \subseteq DOMAIN users' /\ hired \subseteq hired'
  /\ \A i \in DOMAIN users :
       /\ users'[i].role = users[i].role
       /\ users'[i].live => /\ users[i].live
                            /\ profile[i] # None => profile'[i] # None
                            /\ assigned[i] # None => assigned'[i] # None
                            /\ driver[i] # None => driver'[i] # None

LEMMA HireFitStays == ASSUME StaffGrows, NEW j, HireFits(j) PROVE HireFits(j)'
<1>1. CASE "hire" \in j.todo
  BY <1>1 DEF HireFits
<1>2. CASE "hire" \notin j.todo
  BY <1>2 DEF HireFits, StaffGrows
<1> QED
  BY <1>1, <1>2

LEMMA JobFitStays == ASSUME StaffGrows, NEW j, JobFits(j) PROVE JobFits(j)'
BY HireFitStays DEF JobFits, StaffGrows

LEMMA FreeFits == Free \in Job /\ JobFits(Free) /\ JobFits(Free)' /\ Free.todo = {}
BY StaffAssumption DEF Free, Job, JobFits

\* One job moves on, over tables that grew.
LEMMA JobMoves ==
  ASSUME job \in [Clerks -> Job], JobsFit, StaffGrows, NEW s \in Clerks, NEW q \in Job,
         JobFits(q)', job' = [job EXCEPT ![s] = q]
  PROVE  /\ job' \in [Clerks -> Job] /\ JobsFit'
         /\ job'[s] = q /\ \A x \in Clerks : x # s => job'[x] = job[x]
<1>1. /\ job' \in [Clerks -> Job] /\ job'[s] = q
      /\ \A x \in Clerks : x # s => job'[x] = job[x]
  OBVIOUS
<1>2. ASSUME NEW x \in Clerks, x # s PROVE JobFits(job[x])' 
  <2>1. PICK j : j = job[x]
    OBVIOUS
  <2>2. JobFits(j)' /\ job'[x] = j
    BY <1>1, <1>2, <2>1, JobFitStays DEF JobsFit
  <2> QED
    BY <2>2 DEF JobFits, HireFits
<1>3. JobFits(job[s])'
  BY <1>1 DEF JobFits, HireFits
<1> QED
  BY <1>1, <1>2, <1>3 DEF JobsFit

LEMMA ClerksCount ==
  ASSUME NEW T, T \subseteq Clerks
  PROVE  IsFiniteSet(T) /\ Cardinality(T) \in Nat
BY StaffAssumption, FS_Subset, FS_CardinalityType

\* No job comes to create an account.
LEMMA FewerHire ==
  ASSUME ToHire' \subseteq ToHire
  PROVE  /\ Cardinality(ToHire') <= Cardinality(ToHire)
         /\ Cardinality(ToHire) \in Nat /\ Cardinality(ToHire') \in Nat
<1>1. ToHire \subseteq Clerks /\ ToHire' \subseteq Clerks
  BY DEF ToHire
<1> QED
  BY <1>1, ClerksCount, FS_Subset

LEMMA Counts ==
  ASSUME StaffInv
  PROVE  /\ Len(users) \in Nat /\ begun \in Nat /\ jobs \in Nat
         /\ Cardinality(Busy) \in Nat /\ Cardinality(ToHire) \in Nat
<1>1. Busy \subseteq Slots /\ ToHire \subseteq Clerks
  BY DEF Busy, ToHire
<1>2. Len(users) \in Nat /\ begun \in Nat /\ jobs \in Nat
  BY RowsAre DEF StaffInv, AccountsInv, AccountsTypeOK
<1> QED
  BY <1>1, <1>2, SlotsCount, ClerksCount

\* The accounts are within the bound on their numbers.
LEMMA IdsSuffice ==
  ASSUME StaffInv
  PROVE  /\ DOMAIN users \subseteq Ids
         /\ ToHire # {} => Len(users) + 1 \in Ids
<1>1. MaxRequests \in Nat /\ MaxJobs \in Nat /\ begun <= MaxRequests /\ jobs <= MaxJobs
  BY AccountsAssumption, StaffAssumption DEF StaffInv, AccountsInv, AccountsTypeOK
<1>2. Len(users) + Cardinality(Busy) + Cardinality(ToHire) <= begun + jobs
  BY DEF StaffInv, Room
<1>3. Len(users) <= MaxRequests + MaxJobs
  BY <1>1, <1>2, Counts
<1>4. DOMAIN users = 1..Len(users)
  BY RowsAre DEF StaffInv, AccountsInv
<1>5. ASSUME ToHire # {} PROVE Len(users) + 1 <= MaxRequests + MaxJobs
  <2>1. ToHire \subseteq Clerks
    BY DEF ToHire
  <2>2. Cardinality(ToHire) # 0
    BY <1>5, <2>1, ClerksCount, FS_EmptySet
  <2> QED
    BY <1>1, <1>2, <2>2, Counts
<1> QED
  BY <1>1, <1>3, <1>4, <1>5, Counts DEF Ids

-----------------------------------------------------------------------------
(* How a statement ends.                                                   *)

\* What a statement that creates no account does to the tables.
Touches ==
  /\ AccountsInv' /\ TablesTypeOK' /\ StaffGrows /\ ActiveByDecision'
  /\ UNCHANGED <<request, begun, jobs, hired>> /\ Len(users') = Len(users)
  /\ stranded \subseteq stranded'

\* A hired account that had all its rows still has them.
LEMMA CompleteStays ==
  ASSUME StaffGrows, NEW i \in DOMAIN users, users'[i].live, Complete(i)
  PROVE  Complete(i)'
BY DEF StaffGrows, Complete

\* One job moves on.  The account it was building is built, still in its hands,
\* stranded or gone.
LEMMA StaffMoves ==
  ASSUME StaffInv, NEW s \in Clerks, NEW q \in Job, JobFits(q)',
         job' = [job EXCEPT ![s] = q], Touches,
         "hire" \in q.todo => "hire" \in job[s].todo,
         \A i : Hiring(s) /\ job[s].user = i =>
           ~users'[i].live \/ Complete(i)' \/ (Hiring(s)' /\ q.user = i) \/ i \in stranded'
  PROVE  StaffInv'
<1>1. /\ job' \in [Clerks -> Job] /\ JobsFit' /\ job'[s] = q
      /\ \A x \in Clerks : x # s => job'[x] = job[x]
  BY JobMoves DEF StaffInv, Touches
<1>2. Room'
  <2>1. ToHire' \subseteq ToHire
    BY <1>1 DEF ToHire
  <2>2. Busy' = Busy
    BY DEF Busy, Touches
  <2> QED
    BY <2>1, <2>2, FewerHire, Counts DEF StaffInv, Room, Touches
<1>3. (hired \subseteq DOMAIN users)' /\ jobs' \in 0..MaxJobs
  BY DEF StaffInv, Touches, StaffGrows
<1>4. ASSUME NEW i \in hired, users'[i].live
      PROVE  Complete(i)' \/ BeingBuilt(i)' \/ i \in stranded'
  <2>1. i \in DOMAIN users /\ users[i].live
    BY <1>4 DEF StaffInv, Touches, StaffGrows
  <2>2. Complete(i) \/ BeingBuilt(i) \/ i \in stranded
    BY <1>4, <2>1 DEF StaffInv, HiresAreComplete
  <2>3. CASE Complete(i)
    BY <1>4, <2>1, <2>3, CompleteStays DEF Touches
  <2>4. ASSUME NEW x \in Clerks, x # s, Hiring(x), job[x].user = i PROVE BeingBuilt(i)'
    <3>1. job'[x] = job[x]
      BY <1>1, <2>4
    <3>2. Hiring(x)' /\ job'[x].user = i
      BY <2>4, <3>1 DEF Hiring, At
    <3> QED
      BY <3>2 DEF BeingBuilt
  <2>5. CASE Hiring(s) /\ job[s].user = i
    <3>1. Complete(i)' \/ (Hiring(s)' /\ q.user = i) \/ i \in stranded'
      BY <1>4, <2>5
    <3> QED
      BY <1>1, <3>1 DEF BeingBuilt
  <2> QED
    BY <2>2, <2>3, <2>4, <2>5 DEF BeingBuilt, Touches
<1>5. HiresAreComplete'
  BY <1>4 DEF HiresAreComplete, Touches
<1> QED
  BY <1>1, <1>2, <1>3, <1>5 DEF StaffInv, Touches

LEMMA RespondKeeps ==
  ASSUME StaffInv, NEW s \in Clerks, Respond(s), Touches,
         Hiring(s) => ~users'[job[s].user].live \/ job[s].user \in stranded'
  PROVE  StaffInv'
<1>1. PICK q : q = Free
  OBVIOUS
<1>2. job' = [job EXCEPT ![s] = q] /\ q \in Job /\ JobFits(q)' /\ "hire" \notin q.todo
  BY <1>1, FreeFits DEF Respond, JobFits, HireFits
<1>3. \A i : Hiring(s) /\ job[s].user = i =>
        ~users'[i].live \/ Complete(i)' \/ (Hiring(s)' /\ q.user = i) \/ i \in stranded'
  OBVIOUS
<1> QED
  BY <1>2, <1>3, StaffMoves

LEMMA ThrowKeeps ==
  ASSUME StaffInv, NEW s \in Clerks, Throw(s), Touches
  PROVE  StaffInv'
<1>1. CASE ~Hiring(s)
  BY <1>1, RespondKeeps DEF Throw
<1>2. CASE Hiring(s)
  <2>1. PICK q : q = [job[s] EXCEPT !.todo = {"undo"}]
    OBVIOUS
  <2>2. job[s] \in Job /\ JobFits(job[s])
    BY DEF StaffInv, JobsFit
  <2>3. /\ q \in Job /\ q.todo = {"undo"} /\ q.op = job[s].op /\ q.user = job[s].user
    BY <2>1, <2>2, Places DEF Job
  <2>4. job' = [job EXCEPT ![s] = q] /\ job'[s] = q
    BY <1>2, <2>1 DEF Throw, StaffInv
  <2>5. JobFits(q)
    BY <1>2, <2>2, <2>3, TryFits DEF JobFits, HireFits, Adders
  <2>6. JobFits(q)'
    BY <2>5, JobFitStays DEF Touches
  <2>7. Hiring(s)'
    <3>1. job'[s].op \in {"addEmployee", "addDriver"}
      BY <1>2, <2>3, <2>4 DEF Hiring
    <3>2. At(s, "undo")'
      BY <2>3, <2>4, Places DEF At
    <3> QED
      BY <3>1, <3>2 DEF Hiring
  <2> QED
    BY <2>3, <2>4, <2>6, <2>7, StaffMoves
<1> QED
  BY <1>1, <1>2

\* What is left after a statement.
LEMMA RestIs ==
  ASSUME NEW s, NEW x \in DOMAIN Place, At(s, x), NEW rest, rest = {y \in job[s].todo : ~At(s, y)}
  PROVE  /\ rest \subseteq job[s].todo \ {x}
         /\ \A y \in job[s].todo \cap DOMAIN Place : Place[x] < Place[y] => y \in rest
         /\ \A y \in job[s].todo \ rest : At(s, y)
<1>1. ASSUME NEW y \in job[s].todo \cap DOMAIN Place, Place[x] < Place[y] PROVE y \in rest
  <2>1. Place[x] \in Nat /\ Place[y] \in Nat
    BY <1>1, Places
  <2> QED
    BY <1>1, <2>1 DEF At
<1> QED
  BY <1>1

\* What a statement of the try has added before the handler goes on.
Added(x, i) ==
  /\ x = "profile" => profile[i] # None
  /\ x = "assign" => assigned[i] # None
  /\ x = "driverProfile" => driver[i] # None

LEMMA ProceedKeeps ==
  ASSUME StaffInv, NEW s \in Clerks, NEW x \in DOMAIN Place \ {"hire", "undo"}, At(s, x),
         Proceed(s), Touches,
         \A i : Hiring(s) /\ job[s].user = i /\ users'[i].live => Added(x, i)'
  PROVE  StaffInv'
<1>1. PICK j, k : j = job[s] /\ k = j.user
  OBVIOUS
<1>2. j \in Job /\ JobFits(j) /\ x \in j.todo
  BY <1>1 DEF StaffInv, JobsFit, At
<1>3. PICK rest : rest = {y \in job[s].todo : ~At(s, y)}
  OBVIOUS
<1>4. PICK q : q = IF rest = {} THEN Free ELSE [j EXCEPT !.todo = rest]
  OBVIOUS
<1>5. job' = [job EXCEPT ![s] = q]
  BY <1>1, <1>3, <1>4 DEF Proceed, StaffInv
<1>6. /\ rest \subseteq j.todo /\ x \notin rest
      /\ \A y \in j.todo \cap DOMAIN Place : Place[x] < Place[y] => y \in rest
      /\ \A y \in j.todo \ rest : At(s, y)
  BY <1>1, <1>3, RestIs
<1>7. CASE rest # {} /\ j.op \notin Adders
  <2>1. q = [j EXCEPT !.todo = rest]
    BY <1>4, <1>7
  <2>2. /\ q \in Job /\ q.todo = rest /\ q.op = j.op /\ q.user = j.user /\ q.role = j.role
        /\ q.active = j.active /\ q.vehicle = j.vehicle /\ q.owner = j.owner
    BY <1>2, <1>6, <2>1 DEF Job
  <2>3. JobFits(q)
    BY <1>2, <1>6, <1>7, <2>2 DEF JobFits
  <2>4. JobFits(q)' /\ ~Hiring(s)
    BY <1>1, <1>7, <2>3, JobFitStays DEF Touches, Hiring, Adders
  <2> QED
    BY <1>1, <1>5, <1>6, <2>2, <2>4, StaffMoves
<1>8. CASE rest # {} /\ j.op \in Adders
  <2>1. q = [j EXCEPT !.todo = rest]
    BY <1>4, <1>8
  <2>2. /\ q \in Job /\ q.todo = rest /\ q.op = j.op /\ q.user = j.user /\ q.role = j.role
        /\ q.active = j.active /\ q.vehicle = j.vehicle /\ q.owner = j.owner
        /\ q.email = j.email /\ q.phone = j.phone
    BY <1>2, <1>6, <2>1 DEF Job
  <2>3. HireFits(j) /\ HireFits(j)'
    BY <1>2, <1>8, HireFitStays DEF JobFits, Touches
  <2>4. CASE "hire" \in j.todo
    <3>1. x \in {"email", "phone", "role"}
      BY <1>1, <1>2, <2>3, <2>4, Places DEF At, HireFits
    <3>2. \A y \in {"hire", "profile", "assign", "driverProfile", "image"} : y \in j.todo => y \in rest
      BY <1>6, <3>1, Places
    <3>3. HireFits(q)'
      BY <1>6, <1>8, <2>2, <2>3, <2>4, <3>2 DEF HireFits
    <3>4. JobFits(q)'
      BY <1>2, <1>6, <1>8, <2>2, <3>3 DEF JobFits
    <3>5. ~Hiring(s)
      BY <1>1, <1>2, <2>4, TryFits
    <3> QED
      BY <1>1, <1>5, <1>6, <2>2, <3>4, <3>5, StaffMoves
  <2>5. CASE "hire" \notin j.todo
    <3>1. /\ x \in {"profile", "assign", "driverProfile", "image"}
          /\ j.op = "addEmployee" => j.todo \subseteq {"profile", "assign", "image"}
          /\ j.op = "addDriver" => j.todo \subseteq {"driverProfile", "image"}
      BY <1>2, <1>6, <1>8, <2>3, <2>5 DEF HireFits, Adders
    <3>2. Hiring(s)
      BY <1>1, <1>2, <1>8, <3>1, InsideTry DEF PastHire, Adders
    <3>3. users'[k].live =>
            /\ j.op = "addEmployee" => /\ "profile" \in rest \/ profile'[k] # None
                                       /\ "assign" \in rest \/ assigned'[k] # None
            /\ j.op = "addDriver" => "driverProfile" \in rest \/ driver'[k] # None
      <4> SUFFICES ASSUME users'[k].live
                   PROVE  /\ j.op = "addEmployee" =>
                               /\ "profile" \in rest \/ profile'[k] # None
                               /\ "assign" \in rest \/ assigned'[k] # None
                          /\ j.op = "addDriver" =>
                               "driverProfile" \in rest \/ driver'[k] # None
        OBVIOUS
      <4>1. /\ j.op = "addEmployee" => /\ "profile" \in j.todo \/ profile'[k] # None
                                       /\ "assign" \in j.todo \/ assigned'[k] # None
            /\ j.op = "addDriver" => "driverProfile" \in j.todo \/ driver'[k] # None
        BY <1>1, <1>2, <1>6, <1>8, <2>3, <2>5, <3>1 DEF HireFits
      <4>2. Added(x, k)'
        BY <1>1, <3>2
      <4>3. j.todo \ rest \subseteq {x}
        BY <1>1, <1>2, <1>6, <1>8, <3>1, Places DEF At, Adders
      <4>4. /\ "profile" \in j.todo => "profile" \in rest \/ x = "profile"
            /\ "assign" \in j.todo => "assign" \in rest \/ x = "assign"
            /\ "driverProfile" \in j.todo => "driverProfile" \in rest \/ x = "driverProfile"
        BY <4>3
      <4>5. /\ x = "profile" => profile'[k] # None
            /\ x = "assign" => assigned'[k] # None
            /\ x = "driverProfile" => driver'[k] # None
        BY <4>2 DEF Added
      <4>6. CASE j.op = "addEmployee"
        <5>1. /\ "profile" \in rest \/ profile'[k] # None
              /\ "assign" \in rest \/ assigned'[k] # None
          BY <4>1, <4>4, <4>5, <4>6
        <5> QED
          BY <4>6, <5>1
      <4>7. CASE j.op = "addDriver"
        <5>1. "driverProfile" \in rest \/ driver'[k] # None
          BY <4>1, <4>4, <4>5, <4>7
        <5> QED
          BY <4>7, <5>1
      <4> QED
        BY <1>8, <4>6, <4>7 DEF Adders
    <3>4. HireFits(q)'
      <4>1. /\ q.user \in hired' /\ q.user \in DOMAIN users' /\ "hire" \notin q.todo
            /\ users'[q.user].role = IF q.op = "addEmployee" THEN "employee" ELSE "driver"
        <5>1. /\ j.user \in hired' /\ j.user \in DOMAIN users'
              /\ users'[j.user].role = IF j.op = "addEmployee" THEN "employee" ELSE "driver"
          BY <2>3, <2>5 DEF HireFits
        <5>2. "hire" \notin q.todo
          BY <1>6, <2>2, <2>5
        <5> QED
          BY <2>2, <5>1, <5>2
      <4>2. CASE j.op = "addEmployee"
        <5>1. q.todo \subseteq {"profile", "assign", "image"}
          BY <1>6, <2>2, <3>1, <4>2
        <5>2. users'[q.user].live => /\ "profile" \in q.todo \/ profile'[q.user] # None
                                     /\ "assign" \in q.todo \/ assigned'[q.user] # None
          <6>1. q.user = k /\ q.todo = rest
            BY <1>1, <2>2
          <6>2. users'[k].live => /\ "profile" \in rest \/ profile'[k] # None
                                  /\ "assign" \in rest \/ assigned'[k] # None
            BY <3>3, <4>2
          <6> QED
            BY <6>1, <6>2
        <5>3. q.op = "addEmployee"
          BY <2>2, <4>2
        <5> QED
          BY <4>1, <5>1, <5>2, <5>3 DEF HireFits
      <4>3. CASE j.op = "addDriver"
        <5>1. q.todo \subseteq {"driverProfile", "image"}
          BY <1>6, <2>2, <3>1, <4>3
        <5>2. users'[q.user].live => "driverProfile" \in q.todo \/ driver'[q.user] # None
          <6>1. q.user = k /\ q.todo = rest
            BY <1>1, <2>2
          <6>2. users'[k].live => "driverProfile" \in rest \/ driver'[k] # None
            BY <3>3, <4>3
          <6> QED
            BY <6>1, <6>2
        <5>3. q.op = "addDriver"
          BY <2>2, <4>3
        <5> QED
          BY <4>1, <5>1, <5>2, <5>3 DEF HireFits
      <4> QED
        BY <1>8, <4>2, <4>3 DEF Adders
    <3>5. JobFits(q)'
      BY <1>2, <1>6, <1>8, <2>2, <3>4 DEF JobFits
    <3>6. job'[s] = q
      BY <1>5 DEF StaffInv
    <3>7. Hiring(s)'
      <4>1. /\ q.op \in Adders /\ q.todo # {}
            /\ q.todo \subseteq {"profile", "assign", "driverProfile", "image", "undo"}
        BY <1>6, <1>8, <2>2, <3>1 DEF Adders
      <4>2. (PastHire(s))'
        BY <3>6, <4>1 DEF PastHire
      <4> QED
        BY <4>2, InsideTryThen
    <3>8. \A i : job[s].user = i => Hiring(s)' /\ q.user = i
      BY <1>1, <2>2, <3>7
    <3> QED
      BY <1>1, <1>5, <1>6, <2>2, <2>5, <3>5, <3>8, StaffMoves
  <2> QED
    BY <2>4, <2>5
<1>9. CASE rest = {}
  <2>1. q = Free /\ q \in Job /\ JobFits(q)' /\ "hire" \notin q.todo
    BY <1>4, <1>9, FreeFits DEF JobFits, HireFits
  <2>2. ASSUME Hiring(s), users'[k].live PROVE Complete(k)'
    <3>1. /\ j.op \in Adders /\ "hire" \notin j.todo /\ HireFits(j) /\ k \in DOMAIN users
      BY <1>1, <1>2, <2>2, TryFits
    <3>2. HireFits(j)' /\ Added(x, k)'
      BY <1>1, <2>2, <3>1, HireFitStays DEF Touches
    <3>3. j.todo \subseteq {y \in j.todo : At(s, y)}
      BY <1>6, <1>9
    <3>4. CASE j.op = "addEmployee"
      <4>1. j.todo \subseteq {"profile", "assign", "image"} /\ users'[k].role = "employee"
        BY <1>1, <1>2, <1>9, <3>1, <3>2, <3>4 DEF HireFits
      <4>2. j.todo = {x}
        BY <1>1, <1>2, <3>3, <4>1, Places DEF At
      <4>3. profile'[k] # None /\ assigned'[k] # None
        BY <1>1, <2>2, <3>1, <3>2, <3>4, <4>1, <4>2 DEF HireFits, Added
      <4> QED
        BY <4>1, <4>3 DEF Complete
    <3>5. CASE j.op = "addDriver"
      <4>1. j.todo \subseteq {"driverProfile", "image"} /\ users'[k].role = "driver"
        BY <1>1, <1>2, <1>9, <3>1, <3>2, <3>5 DEF HireFits
      <4>2. j.todo = {x}
        BY <1>1, <1>2, <3>3, <4>1, Places DEF At
      <4>3. driver'[k] # None
        BY <1>1, <2>2, <3>1, <3>2, <3>5, <4>1, <4>2 DEF HireFits, Added
      <4> QED
        BY <4>1, <4>3 DEF Complete
    <3> QED
      BY <3>1, <3>4, <3>5 DEF Adders
  <2>3. \A i : Hiring(s) /\ job[s].user = i =>
          ~users'[i].live \/ Complete(i)' \/ (Hiring(s)' /\ q.user = i) \/ i \in stranded'
    BY <1>1, <2>2
  <2> QED
    BY <1>5, <2>1, <2>3, StaffMoves
<1> QED
  BY <1>7, <1>8, <1>9

-----------------------------------------------------------------------------
(* The statements.                                                         *)

LEMMA JobIs ==
  ASSUME StaffInv, NEW s \in Clerks
  PROVE  job[s] \in Job /\ JobFits(job[s]) /\ DOMAIN users \subseteq Ids
BY IdsSuffice DEF StaffInv, JobsFit

\* Other tables change, the accounts do not.
LEMMA AccountsSame ==
  ASSUME StaffInv, UNCHANGED accountVars
  PROVE  AccountsInv' /\ UNCHANGED <<users, request, begun>>
BY AccountsNextInv DEF StaffInv, accountVars

LEMMA NothingTouched ==
  ASSUME StaffInv, UNCHANGED <<accountVars, staffTables, hired, byHand, jobs>>,
         stranded \subseteq stranded', stranded' \subseteq Ids
  PROVE  Touches
<1>1. AccountsInv' /\ UNCHANGED <<users, request, begun>>
  BY AccountsSame
<1>2. UNCHANGED <<roleState, profile, assigned, driver, hired, byHand, jobs>>
  BY DEF staffTables
<1>3. TablesTypeOK'
  BY <1>2 DEF StaffInv, TablesTypeOK
<1>4. StaffGrows /\ ActiveByDecision'
  BY <1>1, <1>2 DEF StaffInv, StaffGrows, ActiveByDecision
<1> QED
  BY <1>1, <1>2, <1>3, <1>4 DEF Touches

LEMMA CheckKeeps ==
  ASSUME StaffInv, NEW s \in Clerks, NEW passed, Check(s, passed),
         NEW x \in {"newRole", "newDriver", "employee", "driver", "email", "phone",
                    "fields", "status", "role", "move"}, At(s, x)
  PROVE  StaffInv'
<1>1. UNCHANGED <<accountVars, staffTables, hired, byHand, stranded, jobs>>
  BY DEF Check, staffHistory, Proceed, Respond
<1>2. Touches
  BY <1>1, NothingTouched DEF StaffInv, TablesTypeOK
<1>3. ~Hiring(s)
  BY OutsideTry
<1>4. x \in DOMAIN Place \ {"hire", "undo"}
  BY Places
<1>5. CASE Proceed(s)
  BY <1>2, <1>3, <1>4, <1>5, ProceedKeeps
<1>6. CASE Respond(s)
  BY <1>2, <1>3, <1>6, RespondKeeps
<1> QED
  BY <1>5, <1>6 DEF Check

LEMMA ReadsKeep ==
  ASSUME StaffInv, NEW s \in Clerks,
         \/ CheckOtherEmail(s) \/ CheckOtherPhone(s) \/ FindRoleByName(s)
         \/ FindRoleById(s) \/ FindEmployeeById(s) \/ FindNewDriver(s)
         \/ FindDriverById(s) \/ CheckMove(s)
  PROVE  StaffInv'
<1>1. \E passed : \E x \in {"newRole", "newDriver", "employee", "driver", "email",
        "phone", "fields", "status", "role", "move"} : At(s, x) /\ Check(s, passed)
  BY DEF CheckOtherEmail, CheckOtherPhone, FindRoleByName, FindRoleById,
         FindEmployeeById, FindNewDriver, FindDriverById, CheckMove
<1> QED
  BY <1>1, CheckKeeps

LEMMA CreateRoleKeeps ==
  ASSUME StaffInv, NEW s \in Clerks, CreateRole(s) PROVE StaffInv'
<1>1. AccountsInv' /\ UNCHANGED <<users, request, begun>>
  BY AccountsSame DEF CreateRole
<1>2. UNCHANGED <<profile, assigned, driver, hired, stranded, byHand, jobs>>
  BY DEF CreateRole, staffHistory, Respond
<1>3. roleState' \in [EmployeeRoles -> BOOLEAN \cup {None}]
  BY DEF CreateRole, StaffInv, TablesTypeOK
<1>4. TablesTypeOK' /\ StaffGrows /\ ActiveByDecision'
  BY <1>1, <1>2, <1>3 DEF StaffInv, TablesTypeOK, StaffGrows, ActiveByDecision
<1>5. Touches
  BY <1>1, <1>2, <1>4 DEF Touches
<1>6. ~Hiring(s) /\ Respond(s)
  BY OutsideTry DEF CreateRole
<1> QED
  BY <1>5, <1>6, RespondKeeps

\* A statement writes employee_profiles, or leaves it.
LEMMA ProfileTouched ==
  ASSUME StaffInv, UNCHANGED <<accountVars, roleState, assigned, driver, staffHistory, jobs>>,
         profile' \in [Ids -> BOOLEAN \cup {None}],
         \A i \in DOMAIN users : profile[i] # None => profile'[i] # None
  PROVE  Touches
<1>1. AccountsInv' /\ UNCHANGED <<users, request, begun>>
  BY AccountsSame
<1>2. TablesTypeOK' /\ StaffGrows /\ ActiveByDecision'
  BY <1>1 DEF staffHistory, StaffInv, TablesTypeOK, StaffGrows, ActiveByDecision
<1> QED
  BY <1>1, <1>2 DEF Touches, staffHistory

LEMMA CreateEmployeeProfileKeeps ==
  ASSUME StaffInv, NEW s \in Clerks, CreateEmployeeProfile(s) PROVE StaffInv'
<1>1. PICK i : i = job[s].user
  OBVIOUS
<1>2. At(s, "profile") /\ "profile" \in job[s].todo
  BY DEF CreateEmployeeProfile, At
<1>3. job[s].active \in BOOLEAN /\ None \notin BOOLEAN
  BY <1>2, JobIs, StaffAssumption DEF JobFits
<1>4. UNCHANGED <<accountVars, roleState, assigned, driver, staffHistory, jobs>>
  BY DEF CreateEmployeeProfile, Proceed, Throw, Respond
<1>5. profile \in [Ids -> BOOLEAN \cup {None}] /\ DOMAIN users \subseteq Ids
  BY JobIs DEF StaffInv, TablesTypeOK
<1>6. CASE i \in LiveUsers
  <2>1. profile' = [profile EXCEPT ![i] = job[s].active] /\ Proceed(s)
    BY <1>1, <1>6 DEF CreateEmployeeProfile
  <2>2. i \in Ids
    BY <1>5, <1>6 DEF LiveUsers
  <2>3. /\ profile' \in [Ids -> BOOLEAN \cup {None}] /\ profile'[i] # None
        /\ \A k \in DOMAIN users : profile[k] # None => profile'[k] # None
    BY <1>3, <1>5, <2>1, <2>2
  <2>4. Touches
    BY <1>4, <2>3, ProfileTouched
  <2>5. Added("profile", i)'
    BY <2>3 DEF Added
  <2>6. "profile" \in DOMAIN Place \ {"hire", "undo"}
    BY Places
  <2> QED
    BY <1>1, <1>2, <2>1, <2>4, <2>5, <2>6, ProceedKeeps
<1>7. CASE i \notin LiveUsers
  <2>1. Throw(s) /\ UNCHANGED profile
    BY <1>1, <1>7 DEF CreateEmployeeProfile
  <2>2. Touches
    BY <1>4, <1>5, <2>1, ProfileTouched
  <2> QED
    BY <2>1, <2>2, ThrowKeeps
<1> QED
  BY <1>6, <1>7

LEMMA UpdateEmployeeProfileKeeps ==
  ASSUME StaffInv, NEW s \in Clerks, UpdateEmployeeProfile(s) PROVE StaffInv'
<1>1. PICK i : i = job[s].user
  OBVIOUS
<1>2. At(s, "status") /\ "status" \in job[s].todo /\ Proceed(s)
  BY DEF UpdateEmployeeProfile, At
<1>3. job[s].active \in BOOLEAN /\ None \notin BOOLEAN
  BY <1>2, JobIs, StaffAssumption DEF JobFits
<1>4. UNCHANGED <<accountVars, roleState, assigned, driver, staffHistory, jobs>>
  BY DEF UpdateEmployeeProfile, Proceed
<1>5. profile \in [Ids -> BOOLEAN \cup {None}] /\ DOMAIN users \subseteq Ids
  BY JobIs DEF StaffInv, TablesTypeOK
<1>6. profile' = profile \/ profile' = [profile EXCEPT ![i] = job[s].active]
  BY <1>1 DEF UpdateEmployeeProfile
<1>7. /\ profile' \in [Ids -> BOOLEAN \cup {None}]
      /\ \A k \in DOMAIN users : profile[k] # None => profile'[k] # None
  BY <1>3, <1>5, <1>6
<1>8. Touches
  BY <1>4, <1>7, ProfileTouched
<1>9. ~Hiring(s) /\ "status" \in DOMAIN Place \ {"hire", "undo"}
  BY <1>2, OutsideTry, Places
<1> QED
  BY <1>2, <1>8, <1>9, ProceedKeeps

LEMMA AssignRoleKeeps ==
  ASSUME StaffInv, NEW s \in Clerks, AssignRole(s) PROVE StaffInv'
<1>1. PICK i : i = job[s].user
  OBVIOUS
<1>2. At(s, "assign") /\ "assign" \in job[s].todo
  BY DEF AssignRole, At
<1>3. job[s].role \in EmployeeRoles /\ None \notin EmployeeRoles
  BY <1>2, JobIs, StaffAssumption DEF JobFits
<1>4. /\ UNCHANGED <<accountVars, roleState, profile, driver, jobs>>
      /\ UNCHANGED <<hired, stranded, byHand>>
  BY DEF AssignRole, Proceed, Throw, Respond, staffHistory
<1>5. assigned \in [Ids -> EmployeeRoles \cup {None}] /\ DOMAIN users \subseteq Ids
  BY JobIs DEF StaffInv, TablesTypeOK
<1>6. AccountsInv' /\ UNCHANGED <<users, request, begun>>
  BY <1>4, AccountsSame
<1>7. ASSUME assigned' \in [Ids -> EmployeeRoles \cup {None}],
             \A k \in DOMAIN users : assigned[k] # None => assigned'[k] # None
      PROVE  Touches
  <2>1. TablesTypeOK' /\ StaffGrows /\ ActiveByDecision'
    BY <1>4, <1>6, <1>7 DEF StaffInv, TablesTypeOK, StaffGrows, ActiveByDecision
  <2> QED
    BY <1>4, <1>6, <2>1 DEF Touches
<1>8. CASE i \in LiveUsers
  <2>1. assigned' = [assigned EXCEPT ![i] = job[s].role] /\ Proceed(s)
    BY <1>1, <1>8 DEF AssignRole
  <2>2. i \in Ids
    BY <1>5, <1>8 DEF LiveUsers
  <2>3. /\ assigned' \in [Ids -> EmployeeRoles \cup {None}] /\ assigned'[i] # None
        /\ \A k \in DOMAIN users : assigned[k] # None => assigned'[k] # None
    BY <1>3, <1>5, <2>1, <2>2
  <2>4. Added("assign", i)'
    BY <2>3 DEF Added
  <2>5. "assign" \in DOMAIN Place \ {"hire", "undo"}
    BY Places
  <2> QED
    BY <1>1, <1>2, <1>7, <2>1, <2>3, <2>4, <2>5, ProceedKeeps
<1>9. CASE i \notin LiveUsers
  <2>1. Throw(s) /\ UNCHANGED assigned
    BY <1>1, <1>9 DEF AssignRole
  <2> QED
    BY <1>5, <1>7, <2>1, ThrowKeeps
<1> QED
  BY <1>8, <1>9

\* A statement writes driver_profiles, or leaves it.
LEMMA DriverTouched ==
  ASSUME StaffInv,
         UNCHANGED <<accountVars, roleState, profile, assigned, hired, stranded, jobs>>,
         driver' \in [Ids -> Driver \cup {None}], byHand' \subseteq Ids,
         \A i \in Ids : driver[i] # None => driver'[i] # None, ActiveByDecision'
  PROVE  Touches
<1>1. AccountsInv' /\ UNCHANGED <<users, request, begun>> /\ DOMAIN users \subseteq Ids
  BY AccountsSame, IdsSuffice
<1>2. TablesTypeOK' /\ StaffGrows
  BY <1>1 DEF StaffInv, TablesTypeOK, StaffGrows
<1> QED
  BY <1>1, <1>2 DEF Touches

LEMMA DriverWritten ==
  ASSUME StaffInv,
         UNCHANGED <<accountVars, roleState, profile, assigned, hired, stranded, jobs>>,
         NEW i \in Ids, NEW d \in Driver, driver' = [driver EXCEPT ![i] = d],
         d.active => d.approval = "approved" \/ i \in byHand',
         byHand' \subseteq Ids, \A k \in byHand : k # i => k \in byHand'
  PROVE  Touches /\ driver'[i] # None
<1>1. driver \in [Ids -> Driver \cup {None}]
  BY DEF StaffInv, TablesTypeOK
<1>2. /\ driver' \in [Ids -> Driver \cup {None}] /\ driver'[i] = d
      /\ \A k \in Ids : k # i => driver'[k] = driver[k]
  BY <1>1
<1>3. d # None
  BY DriverRowAssumption
<1>4. ASSUME NEW k \in Ids, driver'[k] # None, driver'[k].active
      PROVE  driver'[k].approval = "approved" \/ k \in byHand'
  <2>1. CASE k = i
    BY <1>2, <1>4, <2>1
  <2>2. CASE k # i
    <3>1. driver'[k] = driver[k]
      BY <1>2, <2>2
    <3>2. driver[k].approval = "approved" \/ k \in byHand
      BY <1>4, <3>1 DEF StaffInv, ActiveByDecision
    <3> QED
      BY <2>2, <3>1, <3>2
  <2> QED
    BY <2>1, <2>2
<1>5. ActiveByDecision'
  BY <1>4 DEF ActiveByDecision, Ids
<1>6. \A k \in Ids : driver[k] # None => driver'[k] # None
  BY <1>2, <1>3
<1>7. Touches
  BY <1>2, <1>5, <1>6, DriverTouched
<1> QED
  BY <1>2, <1>3, <1>7

LEMMA CreateDriverProfileKeeps ==
  ASSUME StaffInv, NEW s \in Clerks, CreateDriverProfile(s) PROVE StaffInv'
<1>1. PICK j, i : j = job[s] /\ i = j.user
  OBVIOUS
<1>2. At(s, "driverProfile") /\ "driverProfile" \in j.todo
  BY <1>1 DEF CreateDriverProfile, At
<1>3. /\ j \in Job /\ j.vehicle \in Vehicles \cup {None} /\ j.owner \in Restaurants \cup {None}
      /\ j.active \in BOOLEAN /\ (j.op = "submit" => j.active = FALSE)
  BY <1>1, <1>2, JobIs DEF JobFits
<1>4. /\ UNCHANGED <<accountVars, roleState, profile, assigned, hired, stranded, jobs>>
      /\ UNCHANGED byHand
  BY DEF CreateDriverProfile, Proceed, Throw, Respond, staffHistory
<1>5. CASE Throw(s) /\ UNCHANGED driver
  <2>1. UNCHANGED <<accountVars, staffTables, hired, byHand, jobs>> /\ UNCHANGED stranded
    BY <1>4, <1>5 DEF staffTables
  <2>2. Touches
    BY <2>1, NothingTouched DEF StaffInv, TablesTypeOK
  <2> QED
    BY <1>5, <2>2, ThrowKeeps
<1>6. CASE /\ i \in LiveUsers /\ Proceed(s)
           /\ driver' = [driver EXCEPT ![i] =
                   [owner |-> j.owner, vehicle |-> j.vehicle, active |-> j.active,
                    approval |-> IF j.op = "submit" THEN "pending" ELSE "approved"]]
  <2>1. PICK d : d = [owner |-> j.owner, vehicle |-> j.vehicle, active |-> j.active,
                      approval |-> IF j.op = "submit" THEN "pending" ELSE "approved"]
    OBVIOUS
  <2>2. d \in Driver
    BY <1>3, <2>1 DEF Driver, Approvals
  <2>3. d.active => d.approval = "approved"
    <3>1. CASE j.op = "submit"
      BY <1>3, <2>1, <3>1
    <3>2. CASE j.op # "submit"
      BY <2>1, <3>2
    <3> QED
      BY <3>1, <3>2
  <2>4. driver' = [driver EXCEPT ![i] = d] /\ i \in Ids
    BY <1>6, <2>1, JobIs DEF LiveUsers
  <2>5. byHand' \subseteq Ids /\ \A k \in byHand : k # i => k \in byHand'
    BY <1>4 DEF StaffInv, TablesTypeOK
  <2>6. Touches /\ driver'[i] # None
    BY <1>4, <2>2, <2>3, <2>4, <2>5, DriverWritten
  <2>7. Added("driverProfile", i)'
    BY <2>6 DEF Added
  <2>8. "driverProfile" \in DOMAIN Place \ {"hire", "undo"}
    BY Places
  <2> QED
    BY <1>1, <1>2, <1>6, <2>6, <2>7, <2>8, ProceedKeeps
<1> QED
  BY <1>1, <1>5, <1>6 DEF CreateDriverProfile

\* A statement of updateDriver(), approve or reject that goes on.
LEMMA DriverProceeds ==
  ASSUME StaffInv, NEW s \in Clerks, NEW x \in {"driverFields", "approve", "reject"},
         At(s, x), Proceed(s), Touches
  PROVE  StaffInv'
<1>1. x \in DOMAIN Place \ {"hire", "undo"}
  BY Places
<1>2. \A i : Added(x, i)'
  BY DEF Added
<1> QED
  BY <1>1, <1>2, ProceedKeeps

LEMMA DriverStatementsFit ==
  ASSUME StaffInv, NEW s \in Clerks, NEW x \in {"driverFields", "approve", "reject"}, At(s, x)
  PROVE  job[s].user \in Ids
<1>1. x \in job[s].todo /\ JobFits(job[s]) /\ DOMAIN users \subseteq Ids
  BY JobIs DEF At
<1>2. job[s].op \in Adders => job[s].user \in DOMAIN users
  <2> SUFFICES ASSUME job[s].op \in Adders PROVE job[s].user \in DOMAIN users
    OBVIOUS
  <2>1. HireFits(job[s])
    BY <1>1 DEF JobFits
  <2> QED
    BY <1>1, <2>1 DEF HireFits
<1>3. job[s].op \notin Adders => job[s].user \in DOMAIN users
  BY <1>1 DEF JobFits
<1> QED
  BY <1>1, <1>2, <1>3

LEMMA ApproveKeeps ==
  ASSUME StaffInv, NEW s \in Clerks, Approve(s) \/ Reject(s) PROVE StaffInv'
<1>1. PICK i : i = job[s].user
  OBVIOUS
<1>2. PICK x \in {"approve", "reject"} : At(s, x)
  BY DEF Approve, Reject
<1>3. i \in Ids /\ driver \in [Ids -> Driver \cup {None}] /\ byHand \subseteq Ids
  BY <1>1, <1>2, DriverStatementsFit DEF StaffInv, TablesTypeOK
<1>4. /\ UNCHANGED <<accountVars, roleState, profile, assigned, hired, stranded, jobs>>
      /\ byHand' = byHand \ {i} /\ Proceed(s)
  BY <1>1 DEF Approve, Reject, Proceed
<1>5. byHand' \subseteq Ids /\ \A k \in byHand : k # i => k \in byHand'
  BY <1>3, <1>4
<1>6. CASE driver[i] = None
  <2>1. UNCHANGED driver
    BY <1>1, <1>6 DEF Approve, Reject
  <2>2. ASSUME NEW k \in Ids, driver'[k] # None, driver'[k].active
        PROVE  driver'[k].approval = "approved" \/ k \in byHand'
    <3>1. k # i /\ driver'[k] = driver[k]
      BY <1>6, <2>1, <2>2
    <3>2. driver[k].approval = "approved" \/ k \in byHand
      BY <2>2, <3>1 DEF StaffInv, ActiveByDecision
    <3> QED
      BY <1>5, <3>1, <3>2
  <2>3. ActiveByDecision'
    BY <2>2 DEF ActiveByDecision, Ids
  <2>4. Touches
    BY <1>3, <1>4, <1>5, <2>1, <2>3, DriverTouched
  <2> QED
    BY <1>2, <1>4, <2>4, DriverProceeds
<1>7. CASE driver[i] # None
  <2>1. driver[i] \in Driver
    BY <1>3, <1>7
  <2>2. PICK d, e : /\ d = [driver[i] EXCEPT !.approval = "approved", !.active = TRUE]
                    /\ e = [driver[i] EXCEPT !.approval = "rejected", !.active = FALSE]
    OBVIOUS
  <2>3. /\ d \in Driver /\ d.approval = "approved" /\ e \in Driver /\ e.active = FALSE
    BY <2>1, <2>2 DEF Driver, Approvals
  <2>4. driver' = [driver EXCEPT ![i] = d] \/ driver' = [driver EXCEPT ![i] = e]
    BY <1>1, <1>3, <1>7, <2>2 DEF Approve, Reject
  <2>5. Touches
    BY <1>3, <1>4, <1>5, <2>3, <2>4, DriverWritten
  <2> QED
    BY <1>2, <1>4, <2>5, DriverProceeds
<1> QED
  BY <1>6, <1>7

LEMMA UpdateDriverProfileKeeps ==
  ASSUME StaffInv, NEW s \in Clerks, UpdateDriverProfile(s) PROVE StaffInv'
<1>1. PICK j, i, v : j = job[s] /\ i = j.user /\ v = Given(j.vehicle, driver[i].vehicle)
  OBVIOUS
<1>2. At(s, "driverFields") /\ j \in Job
  BY <1>1, JobIs DEF UpdateDriverProfile
<1>3. i \in Ids /\ driver \in [Ids -> Driver \cup {None}] /\ byHand \subseteq Ids
  BY <1>1, <1>2, DriverStatementsFit DEF StaffInv, TablesTypeOK
<1>4. UNCHANGED <<accountVars, roleState, profile, assigned, hired, stranded, jobs>>
  BY DEF UpdateDriverProfile, Proceed, Throw, Respond
<1>5. CASE UNCHANGED <<driver, byHand>> /\ (Proceed(s) \/ Throw(s))
  <2>1. UNCHANGED <<accountVars, staffTables, hired, byHand, jobs>> /\ UNCHANGED stranded
    BY <1>4, <1>5 DEF staffTables
  <2>2. Touches
    BY <2>1, NothingTouched DEF StaffInv, TablesTypeOK
  <2> QED
    BY <1>2, <1>5, <2>2, DriverProceeds, ThrowKeeps
<1>6. CASE /\ driver[i] # None /\ Proceed(s)
           /\ driver' = [driver EXCEPT ![i].owner = Given(j.owner, @), ![i].vehicle = v,
                                       ![i].active = Given(j.active, @)]
           /\ byHand' = IF j.active = Keep THEN byHand ELSE byHand \cup {i}
  <2>1. driver[i] \in Driver
    BY <1>3, <1>6
  <2>2. PICK o, a : o = Given(j.owner, driver[i].owner) /\ a = Given(j.active, driver[i].active)
    OBVIOUS
  <2>3. PICK d : d = [driver[i] EXCEPT !.owner = o, !.vehicle = v, !.active = a]
    OBVIOUS
  <2>4. /\ o \in Restaurants \cup {None} /\ v \in Vehicles \cup {None} /\ a \in BOOLEAN
        /\ (j.active = Keep => a = driver[i].active)
    BY <1>1, <1>2, <2>1, <2>2 DEF Given, Job, Driver
  <2>5. d \in Driver /\ d.approval = driver[i].approval /\ d.active = a
    BY <2>1, <2>3, <2>4 DEF Driver
  <2>6. driver' = [driver EXCEPT ![i] = d]
    BY <1>3, <1>6, <2>2, <2>3
  <2>7. byHand' \subseteq Ids /\ \A k \in byHand : k # i => k \in byHand'
    BY <1>3, <1>6
  <2>8. d.active => d.approval = "approved" \/ i \in byHand'
    <3>1. CASE j.active = Keep
      <4>1. d.active = driver[i].active /\ byHand' = byHand
        BY <1>6, <2>4, <2>5, <3>1
      <4>2. driver[i].active => driver[i].approval = "approved" \/ i \in byHand
        BY <1>3, <1>6 DEF StaffInv, ActiveByDecision
      <4> QED
        BY <2>5, <4>1, <4>2
    <3>2. CASE j.active # Keep
      BY <1>6, <3>2
    <3> QED
      BY <3>1, <3>2
  <2>9. Touches
    BY <1>3, <1>4, <2>5, <2>6, <2>7, <2>8, DriverWritten
  <2> QED
    BY <1>2, <1>6, <2>9, DriverProceeds
<1> QED
  BY <1>1, <1>5, <1>6 DEF UpdateDriverProfile

\* A statement writes auth.users and leaves the requests of Accounts alone.
LEMMA UsersTouched ==
  ASSUME AccountsInv, UNCHANGED <<codes, request, begun>>, users' \in Seq(User),
         DOMAIN users \subseteq DOMAIN users'
  PROVE  AccountsInv'
<1>1. Grows
  BY DEF Grows
<1>2. ASSUME NEW s \in Slots PROVE Fits(request[s])'
  <2>1. PICK r : r = request[s]
    OBVIOUS
  <2>2. Fits(r)'
    BY <1>1, <2>1, FitsStays DEF AccountsInv, RequestsFit
  <2> QED
    BY <2>1, <2>2 DEF Fits
<1>3. CountsFit'
  BY DEF AccountsInv, CountsFit, Unused, Storing, IsNextAddress, Guessing, Holding
<1> QED
  BY <1>2, <1>3 DEF AccountsInv, AccountsTypeOK, RequestsFit

\* One account changes.
LEMMA UserWritten ==
  ASSUME StaffInv, NEW i \in DOMAIN users, NEW u \in User, users' = [users EXCEPT ![i] = u]
  PROVE  /\ users' \in Seq(User) /\ DOMAIN users' = DOMAIN users /\ Len(users') = Len(users)
         /\ users'[i] = u /\ \A k \in DOMAIN users : k # i => users'[k] = users[k]
BY DEF StaffInv, AccountsInv, AccountsTypeOK

LEMMA UpdateUserFieldsKeeps ==
  ASSUME StaffInv, NEW s \in Clerks, UpdateUserFields(s) PROVE StaffInv'
<1>1. PICK j, i : j = job[s] /\ i = j.user
  OBVIOUS
<1>2. PICK e, p : e = Given(j.email, users[i].email) /\ p = Given(j.phone, users[i].phone)
  OBVIOUS
<1>3. At(s, "fields") /\ ~Hiring(s) /\ j \in Job /\ "fields" \in j.todo
  BY <1>1, JobIs, OutsideTry DEF UpdateUserFields, At
<1>4. i \in DOMAIN users
  <2>1. j.op \notin Adders
    <3>1. ASSUME j.op \in Adders PROVE FALSE
      <4>1. HireFits(j)
        BY <1>1, <1>3, <3>1, JobIs DEF JobFits
      <4> QED
        BY <1>3, <4>1 DEF HireFits
    <3> QED
      BY <3>1
  <2> QED
    BY <1>1, <1>3, <2>1, JobIs DEF JobFits
<1>5. users[i] \in User
  BY <1>4, RowsAre DEF StaffInv, AccountsInv
<1>6. UNCHANGED <<codes, request, begun, staffTables, staffHistory, jobs>>
  BY DEF UpdateUserFields, Proceed, Throw, Respond
<1>7. CASE Throw(s) /\ UNCHANGED users
  <2>1. UNCHANGED <<accountVars, staffTables, hired, byHand, jobs>> /\ UNCHANGED stranded
    BY <1>6, <1>7 DEF accountVars, staffHistory
  <2>2. Touches
    BY <2>1, NothingTouched DEF StaffInv, TablesTypeOK
  <2> QED
    BY <1>7, <2>2, ThrowKeeps
<1>8. CASE /\ Proceed(s)
           /\ users' = IF users[i].live
                       THEN [users EXCEPT ![i].email = e, ![i].phone = p,
                                          ![i].had = @ \cup ({p} \ {None})]
                       ELSE users
  <2>1. PICK u : u = IF users[i].live
                     THEN [users[i] EXCEPT !.email = e, !.phone = p,
                                           !.had = @ \cup ({p} \ {None})]
                     ELSE users[i]
    OBVIOUS
  <2>2. e \in Emails /\ p \in Phones \cup {None}
    BY <1>2, <1>3, <1>5 DEF Given, Job, User
  <2>3. u \in User /\ u.role = users[i].role /\ u.live = users[i].live
    BY <1>5, <2>1, <2>2 DEF User
  <2>4. users' = [users EXCEPT ![i] = u]
    <3>1. users \in Seq(User)
      BY DEF StaffInv, AccountsInv, AccountsTypeOK
    <3>2. CASE users[i].live
      <4>1. users' = [users EXCEPT ![i].email = e, ![i].phone = p,
                                   ![i].had = @ \cup ({p} \ {None})]
        BY <1>8, <3>2
      <4>2. u = [users[i] EXCEPT !.email = e, !.phone = p, !.had = @ \cup ({p} \ {None})]
        BY <2>1, <3>2
      <4> QED
        BY <1>4, <3>1, <4>1, <4>2
    <3>3. CASE ~users[i].live
      BY <1>4, <1>8, <2>1, <3>1, <3>3
    <3> QED
      BY <3>2, <3>3
  <2>5. /\ users' \in Seq(User) /\ DOMAIN users' = DOMAIN users /\ Len(users') = Len(users)
        /\ users'[i] = u /\ \A k \in DOMAIN users : k # i => users'[k] = users[k]
    BY <1>4, <2>3, <2>4, UserWritten
  <2>6. AccountsInv'
    BY <1>6, <2>5, UsersTouched DEF StaffInv
  <2>7. \A k \in DOMAIN users : users'[k].role = users[k].role /\ users'[k].live = users[k].live
    BY <2>3, <2>5
  <2>8. TablesTypeOK' /\ StaffGrows /\ ActiveByDecision'
    BY <1>6, <2>5, <2>7
    DEF staffTables, staffHistory, StaffInv, TablesTypeOK, StaffGrows, ActiveByDecision
  <2>9. Touches
    BY <1>6, <2>5, <2>6, <2>8 DEF Touches, staffHistory
  <2>10. "fields" \in DOMAIN Place \ {"hire", "undo"}
    BY Places
  <2> QED
    BY <1>3, <1>8, <2>9, <2>10, ProceedKeeps
<1> QED
  BY <1>1, <1>2, <1>7, <1>8 DEF UpdateUserFields

LEMMA UpdatePictureKeeps ==
  ASSUME StaffInv, NEW s \in Clerks, UpdatePicture(s) PROVE StaffInv'
<1>1. UNCHANGED <<accountVars, staffTables, hired, byHand, stranded, jobs>>
  BY DEF UpdatePicture, staffHistory, Proceed
<1>2. Touches
  BY <1>1, NothingTouched DEF StaffInv, TablesTypeOK
<1>3. At(s, "image") /\ Proceed(s) /\ "image" \in DOMAIN Place \ {"hire", "undo"}
  BY Places DEF UpdatePicture
<1>4. \A i : Added("image", i)'
  BY DEF Added
<1> QED
  BY <1>2, <1>3, <1>4, ProceedKeeps

LEMMA UndoHireKeeps ==
  ASSUME StaffInv, NEW s \in Clerks, UndoHire(s) PROVE StaffInv'
<1>1. PICK i : i = job[s].user
  OBVIOUS
<1>2. i \in DOMAIN users /\ i \in Ids
  <2>1. "undo" \in job[s].todo /\ JobFits(job[s])
    BY JobIs DEF UndoHire, At
  <2>2. job[s].op \in Adders /\ HireFits(job[s])
    BY <2>1 DEF JobFits
  <2> QED
    BY <1>1, <2>1, <2>2, JobIs DEF HireFits
<1>3. users[i] \in User
  BY <1>2, RowsAre DEF StaffInv, AccountsInv
<1>4. PICK u : u = [users[i] EXCEPT !.live = FALSE]
  OBVIOUS
<1>5. u \in User /\ u.role = users[i].role /\ u.live = FALSE
  BY <1>3, <1>4 DEF User
<1>6. /\ users' = [users EXCEPT ![i] = u]
      /\ profile' = [profile EXCEPT ![i] = None]
      /\ assigned' = [assigned EXCEPT ![i] = None]
      /\ driver' = [driver EXCEPT ![i] = None]
      /\ Respond(s)
      /\ UNCHANGED <<codes, request, begun, roleState, hired, stranded, byHand, jobs>>
  BY <1>1, <1>4 DEF UndoHire, staffHistory, Respond
<1>7. /\ users' \in Seq(User) /\ DOMAIN users' = DOMAIN users /\ Len(users') = Len(users)
      /\ users'[i] = u /\ \A k \in DOMAIN users : k # i => users'[k] = users[k]
  BY <1>2, <1>5, <1>6, UserWritten
<1>8. AccountsInv'
  BY <1>6, <1>7, UsersTouched DEF StaffInv
<1>9. /\ profile \in [Ids -> BOOLEAN \cup {None}] /\ assigned \in [Ids -> EmployeeRoles \cup {None}]
      /\ driver \in [Ids -> Driver \cup {None}] /\ DOMAIN users \subseteq Ids
  BY JobIs DEF StaffInv, TablesTypeOK
<1>10. TablesTypeOK'
  <2>1. profile' \in [Ids -> BOOLEAN \cup {None}]
    BY <1>6, <1>9
  <2>2. assigned' \in [Ids -> EmployeeRoles \cup {None}]
    BY <1>6, <1>9
  <2>3. driver' \in [Ids -> Driver \cup {None}]
    BY <1>6, <1>9
  <2> QED
    BY <1>6, <2>1, <2>2, <2>3 DEF StaffInv, TablesTypeOK
<1>11. StaffGrows
  <2>1. ASSUME NEW k \in DOMAIN users, k # i
        PROVE  /\ users'[k] = users[k] /\ profile'[k] = profile[k]
               /\ assigned'[k] = assigned[k] /\ driver'[k] = driver[k]
    BY <1>6, <1>7, <1>9, <2>1
  <2>2. ~users'[i].live /\ users'[i].role = users[i].role
    BY <1>5, <1>7
  <2> QED
    BY <1>6, <1>7, <2>1, <2>2 DEF StaffGrows
<1>12. ActiveByDecision'
  <2>1. ASSUME NEW k \in Ids, driver'[k] # None, driver'[k].active
        PROVE  driver'[k].approval = "approved" \/ k \in byHand'
    <3>1. driver'[k] = driver[k]
      BY <1>6, <1>9, <2>1
    <3> QED
      BY <1>6, <2>1, <3>1 DEF StaffInv, ActiveByDecision
  <2> QED
    BY <2>1 DEF ActiveByDecision, Ids
<1>13. Touches
  BY <1>6, <1>7, <1>8, <1>10, <1>11, <1>12 DEF Touches
<1>14. ~users'[job[s].user].live
  BY <1>1, <1>5, <1>7
<1> QED
  BY <1>6, <1>13, <1>14, RespondKeeps

LEMMA StopKeeps ==
  ASSUME StaffInv, NEW s \in Clerks, StatementThrows(s) \/ StopJob(s) PROVE StaffInv'
<1>1. UNCHANGED <<accountVars, staffTables, hired, byHand, jobs>>
  BY DEF StatementThrows, StopJob, Throw, Respond
<1>2. Hiring(s) => job[s].user \in Ids
  BY JobIs, TryFits
<1>3. stranded' = stranded \/ (Hiring(s) /\ stranded' = stranded \cup {job[s].user})
  BY DEF StatementThrows, StopJob
<1>4. Touches
  BY <1>1, <1>2, <1>3, NothingTouched DEF StaffInv, TablesTypeOK
<1>5. CASE Throw(s)
  BY <1>4, <1>5, ThrowKeeps
<1>6. CASE Respond(s) /\ (Hiring(s) => job[s].user \in stranded')
  BY <1>4, <1>6, RespondKeeps
<1> QED
  BY <1>5, <1>6 DEF StatementThrows, StopJob

LEMMA HireKeeps ==
  ASSUME StaffInv, NEW s \in Clerks, Hire(s) PROVE StaffInv'
<1>1. PICK j, n : j = job[s] /\ n = Len(users) + 1
  OBVIOUS
<1>2. /\ At(s, "hire") /\ "hire" \in j.todo /\ j \in Job /\ j.op \in Adders /\ HireFits(j)
      /\ JobFits(j) /\ ~Hiring(s)
  BY <1>1, JobIs, OutsideTry DEF Hire, At, JobFits
<1>3. CASE Respond(s) /\ UNCHANGED <<users, hired>>
  <2>1. UNCHANGED <<accountVars, staffTables, hired, byHand, jobs>> /\ UNCHANGED stranded
    BY <1>3 DEF accountVars, Hire, Respond
  <2>2. Touches
    BY <2>1, NothingTouched DEF StaffInv, TablesTypeOK
  <2> QED
    BY <1>2, <1>3, <2>2, RespondKeeps
<1>4. ASSUME NEW w \in Passwords,
             users' = Append(users, UserRow(j.email, j.phone, w,
               IF j.op = "addDriver" THEN "driver" ELSE "employee")),
             hired' = hired \cup {n},
             job' = [job EXCEPT ![s].user = n, ![s].todo = @ \ {"hire"}]
      PROVE  StaffInv'
  <2>1. PICK u : u = UserRow(j.email, j.phone, w,
                       IF j.op = "addDriver" THEN "driver" ELSE "employee")
    OBVIOUS
  <2>2. /\ u \in User
        /\ u.role = IF j.op = "addEmployee" THEN "employee" ELSE "driver"
    BY <1>2, <2>1 DEF UserRow, User, Roles, SelfRoles, HireFits, Adders
  <2>3. users' = Append(users, u) /\ users \in Seq(User) /\ Len(users) \in Nat
        /\ DOMAIN users = 1..Len(users)
    BY <1>4, <2>1, RowsAre DEF StaffInv, AccountsInv, AccountsTypeOK
  <2>4. /\ users' \in Seq(User) /\ DOMAIN users' = DOMAIN users \cup {n}
        /\ Len(users') = n /\ n \notin DOMAIN users /\ users'[n] = u
        /\ \A k \in DOMAIN users : users'[k] = users[k]
    BY <1>1, <2>2, <2>3
  <2>5. UNCHANGED <<codes, request, begun, roleState, profile, assigned, driver, stranded,
                    byHand>> /\ UNCHANGED jobs
    BY <1>2 DEF Hire, staffTables, Respond
  <2>6. AccountsInv'
    BY <2>4, <2>5, UsersTouched DEF StaffInv
  <2>7. n \in Ids
    BY <1>1, <1>2, IdsSuffice DEF ToHire
  <2>8. TablesTypeOK' /\ ActiveByDecision' /\ StaffGrows
    BY <1>4, <2>4, <2>5, <2>7 DEF StaffInv, TablesTypeOK, ActiveByDecision, StaffGrows
  <2>9. PICK q : q = [j EXCEPT !.user = n, !.todo = j.todo \ {"hire"}]
    OBVIOUS
  <2>10. /\ q \in Job /\ q.todo = j.todo \ {"hire"} /\ q.op = j.op /\ q.user = n
         /\ q.role = j.role /\ q.active = j.active /\ q.vehicle = j.vehicle /\ q.owner = j.owner
    BY <1>2, <2>7, <2>9 DEF Job
  <2>11. job' = [job EXCEPT ![s] = q]
    BY <1>1, <1>4, <2>9 DEF StaffInv
  <2>12. \A y \in j.todo : y \in DOMAIN Place => Place[y] >= 7
    BY <1>1, <1>2, Places DEF At
  <2>13. \/ /\ j.op = "addEmployee" /\ q.todo \subseteq {"profile", "assign", "image"}
            /\ "profile" \in q.todo /\ "assign" \in q.todo
         \/ /\ j.op = "addDriver" /\ q.todo \subseteq {"driverProfile", "image"}
            /\ "driverProfile" \in q.todo
    BY <1>2, <2>10, <2>12, Places DEF HireFits, Adders
  <2>14. HireFits(q)'
    BY <1>4, <2>2, <2>4, <2>10, <2>13 DEF HireFits
  <2>15. JobFits(q)'
    BY <1>2, <2>10, <2>13, <2>14 DEF JobFits
  <2>16. /\ job' \in [Clerks -> Job] /\ JobsFit' /\ job'[s] = q
         /\ \A x \in Clerks : x # s => job'[x] = job[x]
    BY <2>8, <2>10, <2>11, <2>15, JobMoves DEF StaffInv
  <2>17. Room'
    <3>1. ToHire' \subseteq ToHire \ {s} /\ s \in ToHire /\ ToHire \subseteq Clerks
      BY <1>1, <1>2, <2>10, <2>16 DEF ToHire
    <3>2. /\ IsFiniteSet(ToHire) /\ Cardinality(ToHire) \in Nat /\ IsFiniteSet(ToHire \ {s})
          /\ Cardinality(ToHire \ {s}) = Cardinality(ToHire) - 1
      BY <3>1, ClerksCount, FS_RemoveElement
    <3>3. Cardinality(ToHire') <= Cardinality(ToHire \ {s}) /\ Cardinality(ToHire') \in Nat
      BY <3>1, <3>2, FS_Subset, FS_CardinalityType
    <3>4. Busy' = Busy
      BY <2>5 DEF Busy
    <3>5. Len(users) + Cardinality(Busy) + Cardinality(ToHire) <= begun + jobs
      BY DEF StaffInv, Room
    <3> QED
      BY <1>1, <2>4, <2>5, <3>2, <3>3, <3>4, <3>5, Counts DEF Room
  <2>18. Hiring(s)'
    <3>1. PastHire(s)'
      BY <2>10, <2>13, <2>16 DEF PastHire, Adders
    <3> QED
      BY <3>1, InsideTryThen
  <2>19. ASSUME NEW i \in hired', users'[i].live
         PROVE  Complete(i)' \/ BeingBuilt(i)' \/ i \in stranded'
    <3>1. CASE i = n
      BY <2>10, <2>16, <2>18, <3>1 DEF BeingBuilt
    <3>2. CASE i # n
      <4>1. i \in hired /\ i \in DOMAIN users /\ users[i].live
        BY <1>4, <2>4, <2>19, <3>2 DEF StaffInv
      <4>2. Complete(i) \/ BeingBuilt(i) \/ i \in stranded
        BY <4>1 DEF StaffInv, HiresAreComplete
      <4>3. ASSUME BeingBuilt(i) PROVE BeingBuilt(i)'
        <5>1. PICK x \in Clerks : Hiring(x) /\ job[x].user = i
          BY <4>3 DEF BeingBuilt
        <5>2. x # s /\ job'[x] = job[x]
          BY <1>2, <2>16, <5>1
        <5>3. Hiring(x)' /\ job'[x].user = i
          BY <5>1, <5>2 DEF Hiring, At
        <5> QED
          BY <5>3 DEF BeingBuilt
      <4>4. Complete(i) => Complete(i)'
        BY <2>8, <2>19, <4>1, CompleteStays
      <4> QED
        BY <2>5, <4>2, <4>3, <4>4
    <3> QED
      BY <3>1, <3>2
  <2>20. HiresAreComplete'
    BY <2>19 DEF HiresAreComplete
  <2>21. (hired \subseteq DOMAIN users)' /\ jobs' \in 0..MaxJobs
    BY <1>4, <2>4, <2>5 DEF StaffInv
  <2> QED
    BY <2>6, <2>8, <2>16, <2>17, <2>20, <2>21 DEF StaffInv
<1> QED
  BY <1>1, <1>3, <1>4 DEF Hire

-----------------------------------------------------------------------------
(* Jobs begin.                                                             *)

\* What a handler has been given when it begins.
GivenFits(j) ==
  /\ j.op \in {"createEmployeeRole", "addEmployee", "updateEmployee",
              "assignRole", "updateStatus", "addDriver", "updateDriver",
              "submit", "approve", "reject"}
  /\ j.op \notin Adders \cup {"createEmployeeRole"} => j.user \in DOMAIN users
  /\ j.op \in Adders => j.email \in Emails /\ j.phone \in Phones
  /\ j.op \in {"createEmployeeRole", "addEmployee", "assignRole"} => j.role \in EmployeeRoles
  /\ j.op \in Adders \cup {"updateStatus", "submit"} => j.active \in BOOLEAN
  /\ j.op \in {"addDriver", "submit"} =>
       j.vehicle \in Vehicles \cup {None} /\ j.owner \in Restaurants \cup {None}
  /\ j.op = "submit" => j.active = FALSE

LEMMA PlanFits ==
  ASSUME StaffInv, NEW j \in Job, GivenFits(j), NEW q,
         q = [j EXCEPT !.todo = {x \in Plan(j.op) : Needed(j, x)}]
  PROVE  q \in Job /\ JobFits(q)
<1>1. PICK todo : todo = {x \in Plan(j.op) : Needed(j, x)}
  OBVIOUS
<1>2. j.op \in {"createEmployeeRole", "addEmployee", "updateEmployee",
        "assignRole", "updateStatus", "addDriver", "updateDriver", "submit", "approve", "reject"}
  BY DEF GivenFits
<1>3. todo \subseteq Plan(j.op) /\ Plan(j.op) \subseteq DOMAIN Place
  BY <1>1, <1>2, Places DEF Plan
<1>4. /\ q \in Job /\ q.todo = todo
      /\ q.op = j.op /\ q.user = j.user /\ q.role = j.role /\ q.active = j.active
      /\ q.vehicle = j.vehicle /\ q.owner = j.owner /\ q.email = j.email
      /\ q.phone = j.phone
  BY <1>1, <1>3 DEF Job
<1>5. /\ todo \cap {"role", "assign"} # {} => j.role # Keep
      /\ "status" \in todo => j.active # Keep
  BY <1>1 DEF Needed
<1>6. todo \cap {"newRole", "createRole"} # {} => j.op = "createEmployeeRole"
  BY <1>2, <1>3 DEF Plan
<1>7. "profile" \in todo => j.op = "addEmployee"
  BY <1>2, <1>3 DEF Plan
<1>8. "driverProfile" \in todo => j.op \in {"addDriver", "submit"}
  BY <1>2, <1>3 DEF Plan
<1>9. j.op \notin Adders =>
       /\ "hire" \notin todo /\ "undo" \notin todo /\ "profile" \notin todo
       /\ todo \subseteq {"newRole", "createRole"} \/ j.user \in DOMAIN users
  BY <1>2, <1>3 DEF Plan, Adders, GivenFits
<1>10. CASE j.op = "addEmployee"
  <2>1. /\ todo \subseteq {"email", "phone", "role", "hire", "profile", "assign", "image"}
        /\ "hire" \in todo /\ "profile" \in todo /\ "assign" \in todo
    <3>1. j.role # Keep
      BY <1>10, StaffAssumption DEF GivenFits
    <3>2. Needed(j, "hire") /\ Needed(j, "profile") /\ Needed(j, "assign")
      BY <3>1 DEF Needed
    <3>3. Plan(j.op) = {"email", "phone", "role", "hire", "profile", "assign", "image"}
      BY <1>10 DEF Plan
    <3> QED
      BY <1>1, <3>2, <3>3
  <2> QED
    BY <1>4, <1>10, <2>1 DEF JobFits, HireFits, GivenFits, Adders
<1>11. CASE j.op = "addDriver"
  <2>1. /\ todo \subseteq {"email", "phone", "hire", "driverProfile", "image"}
        /\ "hire" \in todo /\ "driverProfile" \in todo
    <3>1. Needed(j, "hire") /\ Needed(j, "driverProfile")
      BY DEF Needed
    <3>2. Plan(j.op) = {"email", "phone", "hire", "driverProfile", "image"}
      BY <1>11 DEF Plan
    <3> QED
      BY <1>1, <3>1, <3>2
  <2> QED
    BY <1>4, <1>11, <2>1 DEF JobFits, HireFits, GivenFits, Adders
<1>12. CASE j.op \notin Adders
  <2>1. todo \cap {"newRole", "createRole", "role", "assign"} # {} => j.role \in EmployeeRoles
    BY <1>5, <1>6 DEF GivenFits, Job
  <2>2. todo \cap {"status", "profile"} # {} => j.active \in BOOLEAN
    BY <1>5, <1>9, <1>12 DEF Job
  <2>3. "driverProfile" \in todo =>
          /\ j.vehicle \in Vehicles \cup {None} /\ j.owner \in Restaurants \cup {None}
          /\ j.active \in BOOLEAN /\ (j.op = "submit" => j.active = FALSE)
    BY <1>8, <1>12 DEF GivenFits, Adders
  <2> QED
    BY <1>4, <1>9, <1>12, <2>1, <2>2, <2>3 DEF JobFits
<1> QED
  BY <1>10, <1>11, <1>12 DEF Adders

LEMMA BeginJobKeeps ==
  ASSUME StaffInv, NEW s \in Clerks, NEW j \in Job, BeginJob(s, j), GivenFits(j)
  PROVE  StaffInv'
<1> PICK q : q = [j EXCEPT !.todo = {x \in Plan(j.op) : Needed(j, x)}]
  OBVIOUS
<1>0. q \in Job /\ JobFits(q)
  BY PlanFits
<1>1. /\ job[s] = Free /\ jobs' = jobs + 1 /\ jobs' \in 0..MaxJobs
      /\ job' = [job EXCEPT ![s] = q]
      /\ UNCHANGED <<accountVars, staffTables, hired, stranded, byHand>>
  BY StaffAssumption DEF BeginJob, staffHistory, StaffInv
<1>2. AccountsInv' /\ UNCHANGED <<users, request, begun>>
  BY <1>1, AccountsSame
<1>3. UNCHANGED <<roleState, profile, assigned, driver, hired, stranded, byHand>>
  BY <1>1 DEF staffTables
<1>4. TablesTypeOK' /\ StaffGrows /\ ActiveByDecision' /\ (hired \subseteq DOMAIN users)'
  BY <1>2, <1>3 DEF StaffInv, TablesTypeOK, StaffGrows, ActiveByDecision
<1>5. JobFits(q)'
  BY <1>0, <1>4, JobFitStays
<1>6. /\ job' \in [Clerks -> Job] /\ JobsFit' /\ job'[s] = q
      /\ \A x \in Clerks : x # s => job'[x] = job[x]
  BY <1>0, <1>1, <1>4, <1>5, JobMoves DEF StaffInv
<1>7. Room'
  <2>1. /\ ToHire' \subseteq ToHire \cup {s} /\ ToHire \subseteq Clerks /\ ToHire' \subseteq Clerks
        /\ s \notin ToHire
    BY <1>1, <1>6, FreeFits DEF ToHire
  <2>2. /\ IsFiniteSet(ToHire) /\ IsFiniteSet(ToHire \cup {s})
        /\ Cardinality(ToHire \cup {s}) = Cardinality(ToHire) + 1
    BY <2>1, ClerksCount, FS_AddElement
  <2>3. /\ Cardinality(ToHire') <= Cardinality(ToHire \cup {s}) /\ Cardinality(ToHire') \in Nat
    BY <2>1, <2>2, ClerksCount, FS_Subset
  <2>4. Busy' = Busy
    BY <1>2 DEF Busy
  <2>5. Len(users) + Cardinality(Busy) + Cardinality(ToHire) <= begun + jobs
    BY DEF StaffInv, Room
  <2> QED
    BY <1>1, <1>2, <2>2, <2>3, <2>4, <2>5, Counts DEF Room
<1>8. HiresAreComplete'
  <2> SUFFICES ASSUME NEW i \in hired, users'[i].live
               PROVE  Complete(i)' \/ BeingBuilt(i)' \/ i \in stranded'
    BY <1>3 DEF HiresAreComplete
  <2>1. i \in DOMAIN users /\ (Complete(i) \/ BeingBuilt(i) \/ i \in stranded)
    BY <1>2 DEF StaffInv, HiresAreComplete
  <2>2. ASSUME BeingBuilt(i) PROVE BeingBuilt(i)'
    <3>1. PICK x \in Clerks : Hiring(x) /\ job[x].user = i
      BY <2>2 DEF BeingBuilt
    <3>2. x # s /\ job'[x] = job[x]
      BY <1>1, <1>6, <3>1, FreeFits DEF Hiring, At
    <3>3. Hiring(x)' /\ job'[x].user = i
      BY <3>1, <3>2 DEF Hiring, At
    <3> QED
      BY <3>3 DEF BeingBuilt
  <2> QED
    BY <1>3, <1>4, <2>1, <2>2, CompleteStays
<1> QED
  BY <1>1, <1>2, <1>4, <1>6, <1>7, <1>8 DEF StaffInv

LEMMA BeginEmployeeJobKeeps ==
  ASSUME StaffInv, NEW s \in Clerks, BeginEmployeeJob(s) PROVE StaffInv'
<1>1. DOMAIN users \subseteq Ids
  BY IdsSuffice
<1>2. \E j \in Job : BeginJob(s, j) /\ GivenFits(j)
  <2>1. ASSUME NEW r \in EmployeeRoles,
             CreateEmployeeRole(s, r)
      PROVE  \E j \in Job : BeginJob(s, j) /\ GivenFits(j)
    <3>1. PICK j : j = [Free EXCEPT !.op = "createEmployeeRole", !.role = r]
      OBVIOUS
    <3>2. j \in Job /\ j.op = "createEmployeeRole" /\ j.role = r
      BY <1>1, <2>1, <3>1, StaffAssumption DEF Free, Job
    <3>3. GivenFits(j)
      BY <2>1, <3>2 DEF GivenFits, Adders
    <3> QED
      BY <2>1, <3>1, <3>2, <3>3 DEF CreateEmployeeRole
  <2>2. ASSUME NEW r \in EmployeeRoles, NEW e \in Emails, NEW p \in Phones,
             NEW active \in BOOLEAN, NEW image \in BOOLEAN,
             AddEmployee(s, e, p, r, active, image)
      PROVE  \E j \in Job : BeginJob(s, j) /\ GivenFits(j)
    <3>1. PICK j : j = [Free EXCEPT !.op = "addEmployee", !.email = e, !.phone = p,
                                  !.role = r, !.active = active, !.image = image]
      OBVIOUS
    <3>2. j \in Job /\ j.op = "addEmployee" /\ j.role = r /\ j.email = e /\ j.phone = p
          /\ j.active = active
      BY <1>1, <2>2, <3>1, StaffAssumption DEF Free, Job
    <3>3. GivenFits(j)
      BY <2>2, <3>2 DEF GivenFits, Adders
    <3> QED
      BY <2>2, <3>1, <3>2, <3>3 DEF AddEmployee
  <2>3. ASSUME NEW r \in EmployeeRoles, NEW i \in DOMAIN users,
             AssignEmployeeRole(s, i, r)
      PROVE  \E j \in Job : BeginJob(s, j) /\ GivenFits(j)
    <3>1. PICK j : j = [Free EXCEPT !.op = "assignRole", !.user = i, !.role = r]
      OBVIOUS
    <3>2. j \in Job /\ j.op = "assignRole" /\ j.role = r /\ j.user = i
      BY <1>1, <2>3, <3>1, StaffAssumption DEF Free, Job
    <3>3. GivenFits(j)
      BY <2>3, <3>2 DEF GivenFits, Adders
    <3> QED
      BY <2>3, <3>1, <3>2, <3>3 DEF AssignEmployeeRole
  <2>4. ASSUME NEW i \in DOMAIN users, NEW active \in BOOLEAN,
             UpdateEmployeeStatus(s, i, active)
      PROVE  \E j \in Job : BeginJob(s, j) /\ GivenFits(j)
    <3>1. PICK j : j = [Free EXCEPT !.op = "updateStatus", !.user = i, !.active = active]
      OBVIOUS
    <3>2. j \in Job /\ j.op = "updateStatus" /\ j.active = active /\ j.user = i
      BY <1>1, <2>4, <3>1, StaffAssumption DEF Free, Job
    <3>3. GivenFits(j)
      BY <2>4, <3>2 DEF GivenFits, Adders
    <3> QED
      BY <2>4, <3>1, <3>2, <3>3 DEF UpdateEmployeeStatus
  <2>5. ASSUME NEW i \in DOMAIN users, NEW e \in Emails \cup {Keep},
             NEW p \in Phones \cup {None, Keep}, NEW active \in BOOLEAN \cup {Keep},
             NEW r \in EmployeeRoles \cup {Keep},
             UpdateEmployeeByAdmin(s, i, e, p, active, r)
      PROVE  \E j \in Job : BeginJob(s, j) /\ GivenFits(j)
    <3>1. PICK j : j = [Free EXCEPT !.op = "updateEmployee", !.user = i, !.email = e,
                                  !.phone = p, !.active = active, !.role = r]
      OBVIOUS
    <3>2. j \in Job /\ j.op = "updateEmployee" /\ j.user = i
      BY <1>1, <2>5, <3>1, StaffAssumption DEF Free, Job
    <3>3. GivenFits(j)
      BY <2>5, <3>2 DEF GivenFits, Adders
    <3> QED
      BY <2>5, <3>1, <3>2, <3>3 DEF UpdateEmployeeByAdmin
  <2> QED
    BY <2>1, <2>2, <2>3, <2>4, <2>5 DEF BeginEmployeeJob
<1> QED
  BY <1>2, BeginJobKeeps

LEMMA BeginDriverJobKeeps ==
  ASSUME StaffInv, NEW s \in Clerks, BeginDriverJob(s) PROVE StaffInv'
<1>1. DOMAIN users \subseteq Ids
  BY IdsSuffice
<1>2. \E j \in Job : BeginJob(s, j) /\ GivenFits(j)
  <2>1. ASSUME NEW c \in Restaurants \cup {None}, NEW e \in Emails, NEW p \in Phones,
             NEW v \in Vehicles \cup {None}, NEW o \in Restaurants \cup {None},
             NEW active \in BOOLEAN, NEW image \in BOOLEAN,
             AddDriver(s, c, e, p, v, o, active, image)
      PROVE  \E j \in Job : BeginJob(s, j) /\ GivenFits(j)
    <3>1. PICK j : j = [Free EXCEPT !.op = "addDriver", !.caller = c, !.email = e,
                                  !.phone = p, !.vehicle = v, !.owner = o,
                                  !.active = active, !.image = image]
      OBVIOUS
    <3>2. j \in Job /\ j.op = "addDriver" /\ j.email = e /\ j.phone = p /\ j.vehicle = v
          /\ j.owner = o /\ j.active = active
      BY <1>1, <2>1, <3>1, StaffAssumption DEF Free, Job
    <3>3. GivenFits(j)
      BY <2>1, <3>2 DEF GivenFits, Adders
    <3> QED
      BY <2>1, <3>1, <3>2, <3>3 DEF AddDriver
  <2>2. ASSUME NEW i \in DOMAIN users,
             ApproveDriver(s, i)
      PROVE  \E j \in Job : BeginJob(s, j) /\ GivenFits(j)
    <3>1. PICK j : j = [Free EXCEPT !.op = "approve", !.user = i]
      OBVIOUS
    <3>2. j \in Job /\ j.op = "approve" /\ j.user = i
      BY <1>1, <2>2, <3>1, StaffAssumption DEF Free, Job
    <3>3. GivenFits(j)
      BY <2>2, <3>2 DEF GivenFits, Adders
    <3> QED
      BY <2>2, <3>1, <3>2, <3>3 DEF ApproveDriver
  <2>3. ASSUME NEW i \in DOMAIN users,
             RejectDriver(s, i)
      PROVE  \E j \in Job : BeginJob(s, j) /\ GivenFits(j)
    <3>1. PICK j : j = [Free EXCEPT !.op = "reject", !.user = i]
      OBVIOUS
    <3>2. j \in Job /\ j.op = "reject" /\ j.user = i
      BY <1>1, <2>3, <3>1, StaffAssumption DEF Free, Job
    <3>3. GivenFits(j)
      BY <2>3, <3>2 DEF GivenFits, Adders
    <3> QED
      BY <2>3, <3>1, <3>2, <3>3 DEF RejectDriver
  <2>4. ASSUME NEW i \in DOMAIN users, NEW v \in Vehicles \cup {None},
             SubmitDriverProfile(s, i, v)
      PROVE  \E j \in Job : BeginJob(s, j) /\ GivenFits(j)
    <3>1. PICK j : j = [Free EXCEPT !.op = "submit", !.user = i, !.vehicle = v,
                                  !.owner = None, !.active = FALSE]
      OBVIOUS
    <3>2. j \in Job /\ j.op = "submit" /\ j.user = i /\ j.vehicle = v /\ j.owner = None
          /\ j.active = FALSE
      BY <1>1, <2>4, <3>1, StaffAssumption DEF Free, Job
    <3>3. GivenFits(j)
      BY <2>4, <3>2 DEF GivenFits, Adders
    <3> QED
      BY <2>4, <3>1, <3>2, <3>3 DEF SubmitDriverProfile
  <2>5. ASSUME NEW c \in Restaurants \cup {None}, NEW i \in DOMAIN users,
             NEW e \in Emails \cup {Keep}, NEW p \in Phones \cup {None, Keep},
             NEW active \in BOOLEAN \cup {Keep}, NEW v \in Vehicles \cup {Keep},
             NEW o \in Restaurants \cup {None, Keep},
             UpdateDriver(s, c, i, e, p, active, v, o)
      PROVE  \E j \in Job : BeginJob(s, j) /\ GivenFits(j)
    <3>1. PICK j : j = [Free EXCEPT !.op = "updateDriver", !.caller = c, !.user = i,
                                  !.email = e, !.phone = p, !.active = active,
                                  !.vehicle = v, !.owner = o]
      OBVIOUS
    <3>2. j \in Job /\ j.op = "updateDriver" /\ j.user = i
      BY <1>1, <2>5, <3>1, StaffAssumption DEF Free, Job
    <3>3. GivenFits(j)
      BY <2>5, <3>2 DEF GivenFits, Adders
    <3> QED
      BY <2>5, <3>1, <3>2, <3>3 DEF UpdateDriver
  <2>6. CASE \E c \in Restaurants \cup {None}, e \in Emails, p \in Phones,
                v \in Vehicles \cup {None}, o \in Restaurants \cup {None},
                active \in BOOLEAN, image \in BOOLEAN :
               AddDriver(s, c, e, p, v, o, active, image)
    <3>1. PICK c \in Restaurants \cup {None}, e \in Emails, p \in Phones,
               v \in Vehicles \cup {None}, o \in Restaurants \cup {None},
               active \in BOOLEAN, image \in BOOLEAN :
               AddDriver(s, c, e, p, v, o, active, image)
      BY <2>6
    <3> QED
      BY <2>1, <3>1
  <2>7. ASSUME NEW i \in DOMAIN users,
               \/ ApproveDriver(s, i) \/ RejectDriver(s, i)
               \/ \E v \in Vehicles \cup {None} : SubmitDriverProfile(s, i, v)
               \/ \E c \in Restaurants \cup {None}, e \in Emails \cup {Keep},
                     p \in Phones \cup {None, Keep}, active \in BOOLEAN \cup {Keep},
                     v \in Vehicles \cup {Keep}, o \in Restaurants \cup {None, Keep} :
                    UpdateDriver(s, c, i, e, p, active, v, o)
        PROVE  \E j \in Job : BeginJob(s, j) /\ GivenFits(j)
    BY <2>2, <2>3, <2>4, <2>5, <2>7
  <2> QED
    BY <2>6, <2>7 DEF BeginDriverJob
<1> QED
  BY <1>2, BeginJobKeeps

LEMMA UpdateEmployeeRoleKeeps ==
  ASSUME StaffInv, NEW r \in EmployeeRoles, NEW active \in BOOLEAN,
         UpdateEmployeeRole(r, active)
  PROVE  StaffInv'
<1>1. AccountsInv' /\ UNCHANGED <<users, request, begun>>
  BY AccountsSame DEF UpdateEmployeeRole
<1>2. UNCHANGED <<profile, assigned, driver, job, jobs, hired, stranded, byHand>>
  BY DEF UpdateEmployeeRole, staffHistory
<1>3. TablesTypeOK'
  BY <1>2 DEF UpdateEmployeeRole, StaffInv, TablesTypeOK
<1>4. JobsFit'
  BY <1>1, <1>2 DEF StaffInv, JobsFit, JobFits, HireFits
<1>5. HiresAreComplete' /\ ActiveByDecision'
  BY <1>1, <1>2 DEF StaffInv, HiresAreComplete, Complete, BeingBuilt, Hiring, At,
                    ActiveByDecision
<1>6. Room' /\ (hired \subseteq DOMAIN users)'
  BY <1>1, <1>2 DEF StaffInv, Room, Busy, ToHire
<1> QED
  BY <1>1, <1>2, <1>3, <1>4, <1>5, <1>6 DEF StaffInv

-----------------------------------------------------------------------------
(* The steps of Accounts.                                                  *)

\* A statement moves its own request only.
LEMMA OneRequest ==
  ASSUME AccountsInv, NEW s \in Slots, Statement(s) \/ Abandon(s)
  PROVE  /\ request[s] # Idle /\ UNCHANGED begun
         /\ \A x \in Slots \ {s} : request'[x] = request[x]
<1>1. request \in [Slots -> Request] /\ Idle.pc = "idle"
  BY DEF AccountsInv, AccountsTypeOK, Idle
<1>2. CASE ReadCode(s)
  <2>1. \E q : request' = [request EXCEPT ![s] = q]
    BY <1>1, <1>2 DEF ReadCode, Answer
  <2> QED
    BY <1>1, <1>2, <2>1 DEF ReadCode, Answer
<1>3. CASE \/ CountAttempt(s) \/ RecountAttempts(s) \/ CloseCode(s) \/ RetireCodes(s)
           \/ CheckEmail(s) \/ CheckPhone(s) \/ CheckOwner(s)
  BY <1>1, <1>3 DEF CountAttempt, RecountAttempts, CloseCode, RetireCodes, CheckEmail,
                    CheckPhone, CheckOwner, GoTo, Answer
<1>4. CASE CreateUser(s) \/ UpdatePasswordHash(s) \/ DeleteOwner(s) \/ Abandon(s)
  BY <1>1, <1>4 DEF CreateUser, UpdatePasswordHash, DeleteOwner, Abandon, Answer
<1>5. CASE MarkOtpCodeUsed(s)
  <2>1. GoTo(s, "email") \/ GoTo(s, "password") \/ Answer(s)
    BY <1>5, Zenon DEF MarkOtpCodeUsed
  <2> QED
    BY <1>1, <1>5, <2>1 DEF MarkOtpCodeUsed, GoTo, Answer
<1>6. CASE StoreCode(s)
  BY <1>1, <1>6 DEF StoreCode, Answer
<1>7. CASE FindByPhone(s)
  <2>1. \/ GoTo(s, "retire") \/ Answer(s)
        \/ /\ \E i : request' = [request EXCEPT ![s].pc = "mark", ![s].user = i]
           /\ UNCHANGED begun
    BY <1>7 DEF FindByPhone
  <2> QED
    BY <1>1, <1>7, <2>1 DEF FindByPhone, GoTo, Answer
<1> QED
  BY <1>2, <1>3, <1>4, <1>5, <1>6, <1>7 DEF Statement

\* A request creates one account at most, and is done with it then.
LEMMA AccountsCount ==
  ASSUME AccountsInv, AccountsNext
  PROVE  /\ Len(users') \in Nat /\ begun' \in Nat /\ Cardinality(Busy') \in Nat
         /\ Len(users') + Cardinality(Busy') + begun
              <= Len(users) + Cardinality(Busy) + begun'
<1>1. /\ request \in [Slots -> Request] /\ users \in Seq(User)
      /\ DOMAIN users = 1..Len(users) /\ Len(users) \in Nat
      /\ begun \in Nat /\ AccountsInv' /\ Busy \subseteq Slots /\ Busy' \subseteq Slots
  BY AccountsNextInv, RowsAre, AccountsAssumption DEF AccountsInv, AccountsTypeOK, Busy
<1>2. Len(users') \in Nat /\ begun' \in Nat
  <2>1. (AccountsTypeOK => Len(users) \in Nat)'
    BY RowsAre, PTL
  <2> QED
    BY <1>1, <2>1, AccountsAssumption DEF AccountsInv, AccountsTypeOK
<1>3. /\ Cardinality(Busy) \in Nat /\ Cardinality(Busy') \in Nat
      /\ IsFiniteSet(Busy)
  BY <1>1, SlotsCount
<1>4. ASSUME NEW s \in Slots, BeginPublic(s) \/ BeginAdmin(s) 
      PROVE  Len(users') + Cardinality(Busy') + begun <= Len(users) + Cardinality(Busy) + begun'
  <2>1. \E r : Begin(s, r)
    BY <1>4
    DEF BeginPublic, BeginAdmin, SignupRequestOtp, Register, SignupEmailVerifyOtp,
        ForgotPassword, VerifyForgotPasswordOtp, ResetPassword, AddAdmin,
        AddRestaurantOwner, DeleteRestaurantOwner
  <2>2. /\ begun' = begun + 1 /\ users' = users /\ s \notin Busy
        /\ Busy' \subseteq Busy \cup {s}
    BY <1>1, <2>1 DEF Begin, Busy
  <2>3. IsFiniteSet(Busy \cup {s}) /\ Cardinality(Busy \cup {s}) = Cardinality(Busy) + 1
    BY <1>3, <2>2, FS_AddElement
  <2>4. Cardinality(Busy') <= Cardinality(Busy \cup {s})
    BY <2>2, <2>3, FS_Subset
  <2> QED
    BY <1>1, <1>3, <2>2, <2>3, <2>4
<1>5. ASSUME NEW s \in Slots, Statement(s) \/ Abandon(s) 
      PROVE  Len(users') + Cardinality(Busy') + begun <= Len(users) + Cardinality(Busy) + begun'
  <2>1. s \in Busy /\ begun' = begun /\ Busy' \subseteq Busy
    BY <1>5, OneRequest DEF Busy
  <2>2. Cardinality(Busy') <= Cardinality(Busy)
    BY <1>1, <2>1, FewerSlots
  <2>3. CASE CreateUser(s) 
    <3>1. \/ UNCHANGED users \/ \E u : users' = Append(users, u)
      BY <2>3 DEF CreateUser
    <3>2. Len(users') <= Len(users) + 1
      BY <1>1, <3>1
    <3>3. s \notin Busy'
      BY <1>1, <2>3 DEF CreateUser, Answer, Busy
    <3>4. Cardinality(Busy') + 1 <= Cardinality(Busy)
      BY <1>1, <2>1, <3>3, SlotLeaves
    <3> QED
      BY <1>1, <1>2, <1>3, <2>1, <3>2, <3>4
  <2>4. CASE UpdatePasswordHash(s) \/ DeleteOwner(s)
    <3>1. Len(users') = Len(users)
      <4>1. \/ UNCHANGED users
            \/ \E i, u : users' = [users EXCEPT ![i] = u]
        BY <2>4 DEF UpdatePasswordHash, DeleteOwner
      <4>2. DOMAIN users' = DOMAIN users
        BY <4>1
      <4>3. DOMAIN users' = 1..Len(users')
        <5>1. (AccountsTypeOK => DOMAIN users = 1..Len(users))'
          BY RowsAre, PTL
        <5> QED
          BY <1>1, <5>1 DEF AccountsInv
      <4> QED
        BY <1>1, <1>2, <4>2, <4>3
    <3> QED
      BY <1>1, <1>3, <2>1, <2>2, <3>1
  <2>5. CASE ~(CreateUser(s) \/ UpdatePasswordHash(s) \/ DeleteOwner(s))
    <3>1. UNCHANGED users
      BY <1>5, <2>5
      DEF Statement, ReadCode, CountAttempt, RecountAttempts, CloseCode, MarkOtpCodeUsed,
          RetireCodes, StoreCode, CheckEmail, CheckPhone, FindByPhone, CheckOwner, Abandon
    <3> QED
      BY <1>1, <1>3, <2>1, <2>2, <3>1
  <2> QED
    BY <2>3, <2>4, <2>5
<1>6. ASSUME NEW i \in DOMAIN codes, ExpireCode(i) 
      PROVE  Len(users') + Cardinality(Busy') + begun <= Len(users) + Cardinality(Busy) + begun'
  BY <1>1, <1>3, <1>6 DEF ExpireCode, Busy
<1> QED
  BY <1>2, <1>3, <1>4, <1>5, <1>6 DEF AccountsNext

\* Requests of Accounts never take a row of an employee or a driver away.
LEMMA AccountsKeepStaff ==
  ASSUME StaffInv, AccountsNext, UNCHANGED <<staffTables, job, jobs, staffHistory>>
  PROVE  StaffInv'
<1>1. AccountsInv /\ AccountsInv'
  BY AccountsNextInv DEF StaffInv
<1>2. UNCHANGED <<roleState, profile, assigned, driver, job, jobs, hired, stranded, byHand>>
  BY DEF staffTables, staffHistory
<1>3. ASSUME NEW i \in DOMAIN users
      PROVE  /\ i \in DOMAIN users' /\ users'[i].role = users[i].role
             /\ (users'[i].live => users[i].live)
  BY <1>1, AccountsStay DEF AccountKept
<1>4. StaffGrows
  BY <1>2, <1>3 DEF StaffGrows
<1>5. TablesTypeOK' /\ ActiveByDecision' /\ (hired \subseteq DOMAIN users)'
  BY <1>2, <1>3 DEF StaffInv, TablesTypeOK, ActiveByDecision
<1>6. JobsFit'
  <2> SUFFICES ASSUME NEW s \in Clerks PROVE JobFits(job[s])'
    BY DEF JobsFit
  <2>1. PICK j : j = job[s]
    OBVIOUS
  <2>2. JobFits(j)' /\ job'[s] = j
    BY <1>2, <1>4, <2>1, JobFitStays DEF StaffInv, JobsFit
  <2> QED
    BY <2>2 DEF JobFits, HireFits
<1>7. Room'
  <2>1. ToHire' = ToHire
    BY <1>2 DEF ToHire
  <2>2. /\ Len(users') \in Nat /\ begun' \in Nat /\ Cardinality(Busy') \in Nat
        /\ Len(users') + Cardinality(Busy') + begun
              <= Len(users) + Cardinality(Busy) + begun'
    BY <1>1, AccountsCount
  <2>3. Len(users) + Cardinality(Busy) + Cardinality(ToHire) <= begun + jobs
    BY DEF StaffInv, Room
  <2> QED
    BY <1>2, <2>1, <2>2, <2>3, Counts DEF Room
<1>8. HiresAreComplete'
  <2> SUFFICES ASSUME NEW i \in hired, users'[i].live
               PROVE  Complete(i)' \/ BeingBuilt(i)' \/ i \in stranded'
    BY <1>2 DEF HiresAreComplete
  <2>1. i \in DOMAIN users /\ users[i].live /\ (Complete(i) \/ BeingBuilt(i) \/ i \in stranded)
    BY <1>3 DEF StaffInv, HiresAreComplete
  <2>2. BeingBuilt(i)' <=> BeingBuilt(i)
    BY <1>2 DEF BeingBuilt, Hiring, At
  <2> QED
    BY <1>2, <1>4, <2>1, <2>2, CompleteStays
<1> QED
  BY <1>1, <1>2, <1>5, <1>6, <1>7, <1>8 DEF StaffInv

LEMMA StaffInitInv == StaffInit => StaffInv
<1> SUFFICES ASSUME StaffInit PROVE StaffInv
  OBVIOUS
<1>1. AccountsInv /\ TablesTypeOK /\ jobs \in 0..MaxJobs
  BY AccountsInitInv, StaffAssumption DEF StaffInit, TablesTypeOK
<1>2. job \in [Clerks -> Job] /\ JobsFit
  BY FreeFits DEF StaffInit, JobsFit
<1>3. HiresAreComplete /\ ActiveByDecision /\ hired \subseteq DOMAIN users
  BY DEF StaffInit, HiresAreComplete, ActiveByDecision
<1>4. Room
  <2>1. Busy = {} /\ ToHire = {}
    BY FreeFits DEF StaffInit, AccountsInit, Busy, ToHire
  <2>2. Len(users) = 0 /\ begun = 0 /\ jobs = 0
    BY DEF StaffInit, AccountsInit
  <2>3. Cardinality(Busy) = 0 /\ Cardinality(ToHire) = 0
    BY <2>1, FS_EmptySet
  <2> QED
    BY <2>2, <2>3 DEF Room
<1> QED
  BY <1>1, <1>2, <1>3, <1>4 DEF StaffInv

LEMMA StaffNextInv == StaffInv /\ [StaffNext]_staffVars => StaffInv'
<1> SUFFICES ASSUME StaffInv, [StaffNext]_staffVars PROVE StaffInv'
  OBVIOUS
<1>1. ASSUME NEW s \in Clerks, StaffStatement(s) PROVE StaffInv'
  BY <1>1, ReadsKeep, CreateRoleKeeps, HireKeeps, CreateEmployeeProfileKeeps,
     AssignRoleKeeps, UpdateEmployeeProfileKeeps, UpdateUserFieldsKeeps,
     CreateDriverProfileKeeps, UpdateDriverProfileKeeps, ApproveKeeps, UndoHireKeeps,
     UpdatePictureKeeps
  DEF StaffStatement
<1>2. CASE UNCHANGED staffVars
  <2>1. AccountsInv' /\ UNCHANGED <<users, request, begun>>
    BY <1>2, AccountsSame DEF staffVars, accountVars
  <2>2. UNCHANGED <<roleState, profile, assigned, driver, job, jobs, hired, stranded, byHand>>
    BY <1>2 DEF staffVars
  <2>3. TablesTypeOK' /\ ActiveByDecision' /\ (hired \subseteq DOMAIN users)'
    BY <2>1, <2>2 DEF StaffInv, TablesTypeOK, ActiveByDecision
  <2>4. JobsFit' /\ Room'
    BY <2>1, <2>2 DEF StaffInv, JobsFit, JobFits, HireFits, Room, Busy, ToHire
  <2>5. HiresAreComplete'
    BY <2>1, <2>2 DEF StaffInv, HiresAreComplete, Complete, BeingBuilt, Hiring, At
  <2> QED
    BY <2>1, <2>2, <2>3, <2>4, <2>5 DEF StaffInv
<1> QED
  BY <1>1, <1>2, AccountsKeepStaff, BeginEmployeeJobKeeps, BeginDriverJobKeeps,
     StopKeeps, UpdateEmployeeRoleKeeps DEF StaffNext

-----------------------------------------------------------------------------
(* The service.                                                            *)

LEMMA ServiceAlways == Spec => [](StaffInv /\ AddressInv)
<1>1. Init => StaffInv /\ AddressInv
  BY StaffInitInv, AddressInitInv DEF Init
<1>2. ASSUME StaffInv /\ AddressInv, [Next]_authVars PROVE (StaffInv /\ AddressInv)'
  <2>1. [StaffNext]_staffVars /\ [AddressNext]_addressVars
    BY <1>2 DEF Next, authVars
  <2> QED
    BY <1>2, <2>1, StaffNextInv, AddressNextInv
<1> QED
  BY <1>1, <1>2, PTL DEF Spec

\* The tables of the service, and the requests, jobs and transactions that work
\* on them, keep their types.
THEOREM TypeCorrect == Spec => []TypeOK
<1>1. StaffInv /\ AddressInv => TypeOK
  BY DEF StaffInv, AccountsInv, TablesTypeOK, StaffTypeOK, AddressInv, TypeOK
<1> QED
  BY <1>1, ServiceAlways, PTL

\* An employee or a driver whose creation is over has a profile and a role, or
\* the service was stopped in the middle of it, whatever the other requests
\* of the service did to the account in the meantime.
THEOREM HiresStayComplete == Spec => []HiresAreComplete
<1>1. StaffInv => HiresAreComplete
  BY DEF StaffInv
<1> QED
  BY <1>1, ServiceAlways, PTL

\* A driver who may work was approved or switched on by hand.
THEOREM DriversActByDecision == Spec => []ActiveByDecision
<1>1. StaffInv => ActiveByDecision
  BY DEF StaffInv
<1> QED
  BY <1>1, ServiceAlways, PTL

\* What a job does to the accounts: it adds one, or changes a phone, or deletes;
\* the requests of Accounts stay where they are.
JobOnAccounts ==
  /\ UNCHANGED <<codes, request>>
  /\ \A i \in DOMAIN users :
       /\ i \in DOMAIN users' /\ users'[i].pass = users[i].pass
       /\ users[i].had \subseteq users'[i].had
       /\ HadItsPhone(users[i]) => HadItsPhone(users'[i])
  /\ \A i \in DOMAIN users' : i \in DOMAIN users \/ HadItsPhone(users'[i])

LEMMA JobsOnAccounts ==
  ASSUME StaffInv, [StaffNext]_staffVars
  PROVE  [AccountsNext]_accountVars \/ JobOnAccounts
<1>1. users \in Seq(User) /\ Len(users) \in Nat /\ DOMAIN users = 1..Len(users)
  BY RowsAre DEF StaffInv, AccountsInv, AccountsTypeOK
<1>2. ASSUME NEW s \in Clerks, Hire(s) PROVE UNCHANGED accountVars \/ JobOnAccounts
  <2>1. CASE UNCHANGED users
    BY <1>2, <2>1 DEF Hire, accountVars
  <2>2. CASE \E e, p, w, q : users' = Append(users, UserRow(e, p, w, q))
    <3>1. PICK e, p, w, q : users' = Append(users, UserRow(e, p, w, q))
      BY <2>2
    <3>2. PICK u : u = UserRow(e, p, w, q)
      OBVIOUS
    <3>3. HadItsPhone(u)
      BY <3>2 DEF UserRow, HadItsPhone
    <3>4. /\ DOMAIN users' = DOMAIN users \cup {Len(users) + 1}
          /\ users'[Len(users) + 1] = u /\ \A k \in DOMAIN users : users'[k] = users[k]
      BY <1>1, <3>1, <3>2
    <3> QED
      BY <1>2, <3>3, <3>4 DEF Hire, JobOnAccounts
  <2> QED
    BY <1>2, <2>1, <2>2 DEF Hire
<1>3. ASSUME NEW s \in Clerks, UpdateUserFields(s) \/ UndoHire(s)
      PROVE  UNCHANGED accountVars \/ JobOnAccounts
  <2>1. PICK i : i = job[s].user
    OBVIOUS
  <2>2. CASE UNCHANGED users
    BY <1>3, <2>2 DEF UpdateUserFields, UndoHire, accountVars
  <2>3. CASE \E e, p : users' = [users EXCEPT ![i].email = e, ![i].phone = p,
                                            ![i].had = @ \cup ({p} \ {None})]
    <3>1. PICK e, p : users' = [users EXCEPT ![i].email = e, ![i].phone = p,
                                             ![i].had = @ \cup ({p} \ {None})]
      BY <2>3
    <3>2. PICK u : u = [users[i] EXCEPT !.email = e, !.phone = p,
                                        !.had = @ \cup ({p} \ {None})]
      OBVIOUS
    <3>3. users' = [users EXCEPT ![i] = u]
      BY <1>1, <3>1, <3>2
    <3>4. ASSUME users[i] \in User
          PROVE  /\ u.pass = users[i].pass /\ u.phone = p
                 /\ u.had = users[i].had \cup ({p} \ {None})
      BY <3>2, <3>4 DEF User
    <3>5. DOMAIN users' = DOMAIN users /\ \A k \in DOMAIN users : k # i => users'[k] = users[k]
      BY <1>1, <3>3
    <3>6. ASSUME i \in DOMAIN users
          PROVE  /\ users'[i] = u /\ u.pass = users[i].pass /\ users[i].had \subseteq u.had
                 /\ HadItsPhone(u)
      BY <1>1, <3>3, <3>4, <3>6 DEF HadItsPhone
    <3> QED
      BY <1>3, <3>5, <3>6 DEF UpdateUserFields, UndoHire, JobOnAccounts
  <2>4. CASE users' = [users EXCEPT ![i].live = FALSE]
    <3>1. PICK u : u = [users[i] EXCEPT !.live = FALSE]
      OBVIOUS
    <3>2. users' = [users EXCEPT ![i] = u]
      BY <1>1, <2>4, <3>1
    <3>3. ASSUME users[i] \in User
          PROVE  u.pass = users[i].pass /\ u.phone = users[i].phone /\ u.had = users[i].had
      BY <3>1, <3>3 DEF User
    <3>4. DOMAIN users' = DOMAIN users /\ \A k \in DOMAIN users : k # i => users'[k] = users[k]
      BY <1>1, <3>2
    <3>5. ASSUME i \in DOMAIN users
          PROVE  /\ users'[i] = u /\ u.pass = users[i].pass /\ users[i].had \subseteq u.had
                 /\ HadItsPhone(users[i]) => HadItsPhone(u)
      BY <1>1, <3>2, <3>3, <3>5 DEF HadItsPhone
    <3> QED
      BY <1>3, <3>4, <3>5 DEF UpdateUserFields, UndoHire, JobOnAccounts
  <2>5. ASSUME UpdateUserFields(s), ~UNCHANGED users
        PROVE  \E e, p : users' = [users EXCEPT ![i].email = e, ![i].phone = p,
                                               ![i].had = @ \cup ({p} \ {None})]
    <3>1. PICK e, p : e = Given(job[s].email, users[i].email) /\ p = Given(job[s].phone, users[i].phone)
      OBVIOUS
    <3>2. users' = IF users[i].live
                   THEN [users EXCEPT ![i].email = e, ![i].phone = p,
                                      ![i].had = @ \cup ({p} \ {None})]
                   ELSE users
      BY <2>1, <2>5, <3>1 DEF UpdateUserFields
    <3> QED
      BY <2>5, <3>2
  <2>6. UndoHire(s) => users' = [users EXCEPT ![i].live = FALSE]
    BY <2>1 DEF UndoHire
  <2> QED
    BY <1>3, <2>2, <2>3, <2>4, <2>5, <2>6
<1>4. ASSUME NEW s \in Clerks, StaffStatement(s)
      PROVE  UNCHANGED accountVars \/ Hire(s) \/ UpdateUserFields(s) \/ UndoHire(s)
  BY <1>4
  DEF StaffStatement, CheckOtherEmail, CheckOtherPhone, FindRoleByName, FindRoleById,
      FindEmployeeById, FindNewDriver, FindDriverById, CheckMove, Check, CreateRole,
      CreateEmployeeProfile, AssignRole, UpdateEmployeeProfile, CreateDriverProfile,
      UpdateDriverProfile, Approve, Reject, UpdatePicture
<1>5. ASSUME NEW s \in Clerks, BeginEmployeeJob(s) \/ BeginDriverJob(s)
      PROVE  UNCHANGED accountVars
  <2>1. ASSUME NEW j, BeginJob(s, j) PROVE UNCHANGED accountVars
    BY <2>1 DEF BeginJob
  <2>2. BeginEmployeeJob(s) => \E j : BeginJob(s, j)
    BY DEF BeginEmployeeJob, CreateEmployeeRole, AddEmployee, AssignEmployeeRole,
           UpdateEmployeeStatus, UpdateEmployeeByAdmin
  <2>3. BeginDriverJob(s) => \E j : BeginJob(s, j)
    BY DEF BeginDriverJob, AddDriver, ApproveDriver, RejectDriver, SubmitDriverProfile,
           UpdateDriver
  <2> QED
    BY <1>5, <2>1, <2>2, <2>3
<1>6. UNCHANGED staffVars => UNCHANGED accountVars
  BY DEF staffVars, accountVars
<1> QED
  BY <1>2, <1>3, <1>4, <1>5, <1>6
  DEF StaffNext, StatementThrows, StopJob, UpdateEmployeeRole

\* Across the whole service, a password changes only by a reset that has matched
\* and spent a code sent to a phone the account has had, though jobs on employees
\* and drivers change phones and delete accounts meanwhile.
THEOREM PasswordsAreProven == Spec => PasswordsProven
<1>1. Init => PhonesFit
  BY DEF Init, StaffInit, AccountsInit, PhonesFit, Resetting, Idle
<1>2. ASSUME StaffInv, [Next]_authVars PROVE [AccountsNext]_accountVars \/ JobOnAccounts
  <2>1. [StaffNext]_staffVars
    BY <1>2 DEF Next, authVars
  <2> QED
    BY <1>2, <2>1, JobsOnAccounts
<1>3. ASSUME StaffInv, PhonesFit, [Next]_authVars PROVE PhonesFit'
  <2>1. CASE [AccountsNext]_accountVars
    BY <1>3, <2>1, PhonesStayFit DEF StaffInv
  <2>2. CASE JobOnAccounts
    <3>1. \A i \in DOMAIN users' : HadItsPhone(users'[i])
      BY <1>3, <2>2 DEF JobOnAccounts, PhonesFit
    <3>2. ASSUME NEW s \in Slots, Resetting(request[s])
          PROVE  request[s].phone \in users'[request[s].user].had
      <4>1. request[s].user \in DOMAIN users
        BY <1>3, <3>2 DEF StaffInv, AccountsInv, RequestsFit, Fits, Resetting
      <4> QED
        BY <1>3, <2>2, <3>2, <4>1 DEF JobOnAccounts, PhonesFit
    <3> QED
      BY <2>2, <3>1, <3>2 DEF JobOnAccounts, PhonesFit
  <2> QED
    BY <1>2, <1>3, <2>1, <2>2
<1>4. StaffInv /\ PhonesFit /\ [Next]_authVars =>
        [\A i \in DOMAIN users : users'[i].pass # users[i].pass =>
           \E j \in DOMAIN codes :
             codes[j].addr \in users[i].had /\ codes[j].used /\ codes[j].uses > 0]_accountVars
  <2> SUFFICES ASSUME StaffInv, PhonesFit, [Next]_authVars, NEW i \in DOMAIN users,
                      users'[i].pass # users[i].pass
               PROVE  \E j \in DOMAIN codes :
                        codes[j].addr \in users[i].had /\ codes[j].used /\ codes[j].uses > 0
    OBVIOUS
  <2>1. [AccountsNext]_accountVars
    BY <1>2 DEF JobOnAccounts
  <2> QED
    BY <2>1, PasswordSteps DEF StaffInv
<1> QED
  BY <1>1, <1>3, <1>4, ServiceAlways, PTL DEF Spec, PasswordsProven

\* The limits on codes, guesses and default addresses hold with the jobs on
\* employees and drivers running beside the requests.
THEOREM ServiceKeepsLimits ==
  Spec => [](OpenCodesBounded /\ GuessesBounded /\ UsesBounded /\ DefaultsBounded)
<1>1. StaffInv => AccountsInv
  BY DEF StaffInv
<1> QED
  BY <1>1, OpenCodesFit, GuessesFit, UsesFit, DefaultsFit, ServiceAlways, PTL
=============================================================================
