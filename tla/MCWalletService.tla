-------------------------- MODULE MCWalletService ---------------------------
(* Two handlers at a time on one wallet: two reviews of one payout, two      *)
(* payout requests against one balance, two markings of one payment.         *)
EXTENDS WalletService, TLC

CONSTANTS Orders

MCServiceRefs == {<<"order", o>> : o \in Orders}
MCRefs == MCServiceRefs \cup {PayoutRef(p) : p \in PayoutIds}
                        \cup {PaymentRef(d) : d \in PaymentIds}
MCTxTypes == OwnTypes \cup ServiceTypes

Symmetry == Permutations(Calls) \cup Permutations(PayoutIds)
=============================================================================
