------------------------------ MODULE Earnings ------------------------------
(***************************************************************************)
(* What the settlement of delivered orders promises, without services,     *)
(* calls or a ledger: an order handed over pays its restaurant's owner at  *)
(* most once and one of the drivers who handed it over at most once, and   *)
(* nothing else changes anybody's income.  Settlement is shown to          *)
(* implement it.                                                           *)
(***************************************************************************)
EXTENDS Integers

CONSTANTS
  Orders, Payees,
  Carriers,     \* who may hand an order over
  Owner,        \* the owner each order's restaurant belongs to
  OwnerShare,   \* what each order earns its owner
  CarrierShare  \* what it earns the one who delivers it

VARIABLES
  handovers,    \* the pairs of an order and the carrier who handed it over
  ownerPaid,    \* orders whose owner was paid
  carrierPaid,  \* the pairs of an order and the carrier it paid
  income        \* what each payee has earned

earningsVars == <<handovers, ownerPaid, carrierPaid, income>>

EarningsInit ==
  /\ handovers = {}
  /\ ownerPaid = {}
  /\ carrierPaid = {}
  /\ income = [u \in Payees |-> 0]

HandOver(o, d) ==
  /\ handovers' = handovers \cup {<<o, d>>}
  /\ UNCHANGED <<ownerPaid, carrierPaid, income>>

PayOwner(o) ==
  /\ \E h \in handovers : h[1] = o
  /\ o \notin ownerPaid
  /\ ownerPaid' = ownerPaid \cup {o}
  /\ income' = [income EXCEPT ![Owner[o]] = @ + OwnerShare[o]]
  /\ UNCHANGED <<handovers, carrierPaid>>

PayCarrier(o, d) ==
  /\ <<o, d>> \in handovers
  /\ \A h \in carrierPaid : h[1] # o
  /\ carrierPaid' = carrierPaid \cup {<<o, d>>}
  /\ income' = [income EXCEPT ![d] = @ + CarrierShare[o]]
  /\ UNCHANGED <<handovers, ownerPaid>>

EarningsNext ==
  \E o \in Orders :
    \/ PayOwner(o)
    \/ \E d \in Carriers : HandOver(o, d) \/ (d \in Payees /\ PayCarrier(o, d))

EarningsSpec == EarningsInit /\ [][EarningsNext]_earningsVars
=============================================================================
