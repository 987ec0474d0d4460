SPECIFICATION MCSpec
CONSTANTS
  Slots = {s1, s2}
  Clerks = {k1, k2}
  Sessions = {t1, t2}
  Emails = {e1}
  Phones = {p1}
  Codes = {c1, c2}
  Passwords = {w1, w2}
  EmployeeRoles = {r1}
  Vehicles = {v1}
  Restaurants = {x1}
  Customers = {u1}
  None = none
  Keep = keep
  NotGiven = notGiven
  MaxAttempts = 2
  MaxRequests = 5
  MaxJobs = 4
  MaxChanges = 4
SYMMETRY Symmetric
INVARIANTS
  TypeOK
  OpenCodesBounded
  GuessesBounded
  UsesBounded
  HiresAreComplete
  ActiveByDecision
  DefaultsBounded
PROPERTIES
  PasswordsProven
CHECK_DEADLOCK FALSE
