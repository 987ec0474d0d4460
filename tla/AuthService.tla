---------------------------- MODULE AuthService ----------------------------
(***************************************************************************)
(* The auth service: accounts with their one-time codes, staff, and the    *)
(* address book, in one process over one database (routes/auth.ts).        *)
(***************************************************************************)
EXTENDS Staff, AddressBook

authVars == <<staffVars, addressVars>>

TypeOK == StaffTypeOK /\ AddressTypeOK

Init == StaffInit /\ AddressInit

Next ==
  \/ StaffNext /\ UNCHANGED addressVars
  \/ AddressNext /\ UNCHANGED staffVars

Spec == Init /\ [][Next]_authVars
=============================================================================
