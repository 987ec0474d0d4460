---------------------------- MODULE AddressBook ----------------------------
(***************************************************************************)
(* A customer's addresses in the auth service: auth.user_addresses and the *)
(* transactions of models/Address.ts.  At most one address should be the   *)
(* default: create() and updateForUser() first clear the flag of all the   *)
(* user's rows, then write theirs.  No index enforces it.                  *)
(*                                                                         *)
(* The database is modelled from how the code uses it (READ COMMITTED): an *)
(* UPDATE sees the rows committed when it starts, waits for those another  *)
(* transaction has written, and what it writes shows at COMMIT.            *)
(***************************************************************************)
EXTENDS Naturals, Sequences, FiniteSets

CONSTANTS
  Customers,
  Sessions,     \* connections that run a transaction
  NotGiven,     \* "the body does not name is_default"
  MaxChanges    \* bound on the transactions begun

ASSUME AddressAssumption ==
  IsFiniteSet(Sessions) /\ NotGiven \notin BOOLEAN /\ MaxChanges \in Nat

VARIABLES
  address,      \* auth.user_addresses, in order of insertion
  change,       \* the transaction of each session
  changes       \* transactions begun so far

addressVars == <<address, change, changes>>

Row == [owner : Customers, default : BOOLEAN, live : BOOLEAN]

\* row is the address to update, 0 for one to create; seen the rows the
\* clearing UPDATE works on, locked those this transaction has written.
Change == [pc : {"clear", "wait", "write", "commit"}, user : Customers,
           row : Nat, flag : BOOLEAN \cup {NotGiven},
           seen : SUBSET Nat, locked : SUBSET Nat]

NoChange == [pc |-> "idle"]

AddressTypeOK ==
  /\ address \in Seq(Row)
  /\ change \in [Sessions -> Change \cup {NoChange}]
  /\ changes \in 0..MaxChanges

AddressInit ==
  /\ address = <<>>
  /\ change = [s \in Sessions |-> NoChange]
  /\ changes = 0

-----------------------------------------------------------------------------
RowsOf(u) == {i \in DOMAIN address : address[i].live /\ address[i].owner = u}

LockFree(s, i) ==
  \A r \in Sessions \ {s} : change[r] # NoChange => i \notin change[r].locked

\* Fault: the other addresses keep their flag.
BeginUncleared(s, u, i, flag) ==
  /\ change[s] = NoChange
  /\ changes < MaxChanges
  /\ changes' = changes + 1
  /\ change' = [change EXCEPT ![s] =
       [pc |-> "write", user |-> u, row |-> i,
        flag |-> flag, seen |-> {}, locked |-> {}]]
  /\ UNCHANGED address

\* BEGIN; only a request that makes its address the default clears the others.
BeginChange(s, u, i, flag) ==
  /\ change[s] = NoChange
  /\ changes < MaxChanges
  /\ changes' = changes + 1
  /\ change' = [change EXCEPT ![s] =
       [pc |-> IF flag = TRUE THEN "clear" ELSE "write", user |-> u, row |-> i,
        flag |-> flag, seen |-> {}, locked |-> {}]]
  /\ UNCHANGED address

\* create(): is_default is always given.
CreateAddress(s, u, flag) == BeginChange(s, u, 0, flag)

\* updateForUser(): the id may be unknown, deleted or another user's.
UpdateAddress(s, u, i, flag) == BeginChange(s, u, i, flag)

\* The clearing UPDATE starts: it works on the rows committed by now.
StartClear(s) ==
  LET c == change[s] IN
    /\ c # NoChange /\ c.pc = "clear"
    /\ change' = [change EXCEPT ![s].pc = "wait", ![s].seen = RowsOf(c.user)]
    /\ UNCHANGED <<address, changes>>

\* It has every row it works on, or it has waited for them.
FinishClear(s) ==
  LET c == change[s] IN
    /\ c # NoChange /\ c.pc = "wait"
    /\ \A i \in c.seen : LockFree(s, i)
    /\ change' = [change EXCEPT ![s].pc = "write", ![s].locked = c.seen]
    /\ UNCHANGED <<address, changes>>

\* INSERT, or UPDATE ... WHERE id AND user_id, which may find no row.
WriteAddress(s) ==
  LET c == change[s] IN
    /\ c # NoChange /\ c.pc = "write"
    /\ c.row \in RowsOf(c.user) => LockFree(s, c.row)
    /\ change' = [change EXCEPT ![s].pc = "commit",
         ![s].locked = @ \cup (RowsOf(c.user) \cap {c.row})]
    /\ UNCHANGED <<address, changes>>

\* What row i holds once change c is committed.
After(c, i) ==
  [address[i] EXCEPT !.default =
     IF i = c.row /\ i \in c.locked /\ c.flag # NotGiven THEN c.flag
     ELSE @ /\ i \notin c.seen]

CommitAddress(s) ==
  LET c == change[s]
      cleared == [i \in DOMAIN address |-> After(c, i)]
  IN
    /\ c # NoChange /\ c.pc = "commit"
    /\ address' = IF c.row = 0
         THEN Append(cleared, [owner |-> c.user, default |-> c.flag, live |-> TRUE])
         ELSE cleared
    /\ change' = [change EXCEPT ![s] = NoChange]
    /\ UNCHANGED changes

\* A statement throws or the connection is lost: ROLLBACK.
RollbackAddress(s) ==
  /\ change[s] # NoChange
  /\ change' = [change EXCEPT ![s] = NoChange]
  /\ UNCHANGED <<address, changes>>

\* deleteForUser(): one statement, which waits for the row.
DeleteAddress(u, i) ==
  /\ i \in RowsOf(u)
  /\ \A s \in Sessions : LockFree(s, i)
  /\ address' = [address EXCEPT ![i].live = FALSE]
  /\ UNCHANGED <<change, changes>>

AddressNext ==
  \/ \E s \in Sessions, u \in Customers :
       \/ \E flag \in BOOLEAN : CreateAddress(s, u, flag)
       \/ \E i \in DOMAIN address, flag \in BOOLEAN \cup {NotGiven} :
            UpdateAddress(s, u, i, flag)
  \/ \E s \in Sessions :
       \/ StartClear(s) \/ FinishClear(s) \/ WriteAddress(s)
       \/ CommitAddress(s) \/ RollbackAddress(s)
  \/ \E u \in Customers, i \in DOMAIN address : DeleteAddress(u, i)

AddressSpec == AddressInit /\ [][AddressNext]_addressVars

-----------------------------------------------------------------------------
(* Properties.                                                             *)

Defaults(u) == {i \in RowsOf(u) : address[i].default}

\* create() clears the user's defaults and inserts one, but its UPDATE cannot
\* see a row another transaction has inserted and not committed: concurrent
\* requests leave several defaults, never more than there were at once.
DefaultsBounded ==
  \A u \in Customers : Cardinality(Defaults(u)) <= Cardinality(Sessions)
=============================================================================
