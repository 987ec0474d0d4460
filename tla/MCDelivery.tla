----------------------------- MODULE MCDelivery -----------------------------
(* One order and two handlers at a time: an acceptance against a sweep, a    *)
(* reassignment or a decline, and two sweeps of one offer.                   *)
EXTENDS Delivery, TLC

Symmetry == Permutations(Tasks) \cup Permutations(Drivers)
=============================================================================
