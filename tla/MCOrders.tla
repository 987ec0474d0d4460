------------------------------ MODULE MCOrders ------------------------------
(* Two handlers at a time for one customer and one order: two creations on   *)
(* one balance, two updates of one order, a cancellation that races another, *)
(* and a retry of what failed.                                               *)
EXTENDS Orders, TLC

MCRefs == {PaymentRef(u) : u \in Users} \cup {FailedRef(u) : u \in Users}
            \cup {CancelRef(o) : o \in OrderIds}

Symmetry == Permutations(Tasks) \cup Permutations(OrderIds)
=============================================================================
